---------------------------- MODULE Spec2Model ----------------------------
(***************************************************************************)
(* A model of the Paparazzi log processing of ppz_weblog:                  *)
(*   backend/parsers/data_parser.py         (binary decoder, DataParser)   *)
(*   backend/parsers/simple_data_parser.py  (text decoder)                 *)
(*   backend/parsers/log_parser.py          (the catalog builder)          *)
(*   backend/models/aircraft.py             (the catalog lookups)          *)
(*   backend/parser_version.py              (the parser version guard)     *)
(*                                                                         *)
(* Bytes are integers 0..255 and text is a sequence of code points, so a   *)
(* str and the bytes it was decoded from share one representation.         *)
(* A decoded Python value is a tagged record [t, v]: None, an int, a       *)
(* float, a bool, a str or a list, so that values of different Python      *)
(* types can be compared.                                                  *)
(***************************************************************************)
EXTENDS Integers, Sequences, FiniteSets, TLC

VARIABLES
    data_content,     \* the bytes handed to parse_data
    aircraft_config,  \* the AircraftConfig handed to parse_data
    messages,         \* parse_data's local list of Message
    offset,           \* DataParser.parse_data's byte offset
    line_no,          \* SimpleDataParser.parse_data: lines consumed so far
    pc,               \* "bin" / "text": inside the loop; "done": returned
    plan,             \* how data_content was put together (never written)
    parser_config,    \* per SimpleDataParser instance: its self.aircraft_config
    calls,            \* the parse_data calls that returned, with their results
    message_classes,  \* LogParser.message_classes of the one LogParser
    log_history,      \* the schema texts handed to parse_log so far
    outcome,          \* what the last parse_log returned or raised
    version_file,     \* the content of parser_version.json
    sessions,         \* the output directory: session name -> its entry
    parser_hash,      \* what get_current_parser_hash() returns
    reprocess,        \* what the last get_sessions_to_reprocess returned
    value_str,        \* the token handed to _convert_value
    converted,        \* what _convert_value returned for it
    source_files,     \* the parser and model source files: directory -> name -> text
    hash_calls,       \* the get_current_parser_hash calls so far, with what they read
    thread_pc,        \* per thread: where it is in its code
    in_flight,        \* per thread: the session its process_log_pair is working on
    todo,             \* per thread: the sessions its loop has still to go through
    input_pairs,      \* the sessions whose log and data files lie in the input directory
    disk,             \* the files under input, output and output/processed_logs: path -> content
    last_pair         \* the last process_log_pair call: its arguments, the files before it, how it ended

decoderVars == <<data_content, aircraft_config, messages, offset, line_no, pc, plan>>
callVars == <<parser_config, calls>>
logVars == <<message_classes, log_history, outcome>>
guardVars == <<version_file, sessions, parser_hash, reprocess>>
convertVars == <<value_str, converted>>
hashVars == <<source_files, hash_calls>>
watchVars == <<thread_pc, in_flight, todo, input_pairs>>
fsVars == <<disk, last_pair>>
vars == <<decoderVars, callVars, logVars, guardVars, convertVars, hashVars, watchVars, fsVars>>

-----------------------------------------------------------------------------
(* Python values *)

None == [t |-> "none", v |-> 0]
PyInt(n) == [t |-> "int", v |-> n]
PyStr(s) == [t |-> "str", v |-> s]
PyBool(b) == [t |-> "bool", v |-> b]
PyList(l) == [t |-> "list", v |-> l]
\* a float read from 4 or 8 little-endian bytes is held as those bytes (its
\* IEEE-754 bit pattern): struct.unpack is one-to-one on them
PyFloatBits(b) == [t |-> "float", v |-> b]
\* a float parsed from a decimal numeral is held as <<m, e>>, meaning m * 10^e,
\* with m not divisible by ten (or <<0, 0>>); infinity is <<sign, 0, 1>> and
\* nan is <<0, 0, 2>>
PyFloatDec(m, e) == [t |-> "float", v |-> <<m, e>>]

Min(a, b) == IF a < b THEN a ELSE b
Max(a, b) == IF a > b THEN a ELSE b

\* s[i:] and s[:j] with Python's clamping and negative indices
SliceFrom(s, i) ==
    LET start == IF i < 0 THEN Max(Len(s) + i, 0) ELSE Min(i, Len(s))
    IN  SubSeq(s, start + 1, Len(s))

SliceTo(s, j) ==
    LET stop == IF j < 0 THEN Max(Len(s) + j, 0) ELSE Min(j, Len(s))
    IN  SubSeq(s, 1, stop)

\* s.find(c): the 0-based index of the first c in s, or -1
Find(s, c) ==
    IF \E i \in 1..Len(s) : s[i] = c
    THEN (CHOOSE i \in 1..Len(s) : s[i] = c /\ \A j \in 1..(i - 1) : s[j] # c) - 1
    ELSE -1

\* bytes.decode("ascii", errors="ignore"): bytes above 127 are dropped
IsAscii(b) == b < 128
DecodeAscii(bytes) == SelectSeq(bytes, IsAscii)

\* bytes.decode("utf-8", errors="ignore") on the bytes of the model: ASCII
\* decodes to itself, and 255, which starts no UTF-8 sequence, is dropped
DecodeUtf8(bytes) == SelectSeq(bytes, IsAscii)

RECURSIVE Concat(_)
Concat(ss) == IF ss = <<>> THEN <<>> ELSE Head(ss) \o Concat(Tail(ss))

RECURSIVE SeqsUpTo(_, _)
\* the sequences over S of length at most n
SeqsUpTo(S, n) ==
    IF n = 0 THEN {<<>>}
    ELSE LET shorter == SeqsUpTo(S, n - 1)
         IN  shorter \cup {Append(s, x) : s \in {q \in shorter : Len(q) = n - 1}, x \in S}

-----------------------------------------------------------------------------
(* models/aircraft.py: the catalog *)

\* AircraftConfig.get_aircraft_by_id: the first aircraft with that id, or None
get_aircraft_by_id(config, ac_id) ==
    LET hits == {i \in 1..Len(config.aircraft) : config.aircraft[i].ac_id = ac_id}
    IN  IF hits = {} THEN None
        ELSE config.aircraft[CHOOSE i \in hits : \A j \in hits : i <= j]

\* Aircraft.get_message_definition: message_definitions.get(message_name)
get_message_definition(aircraft, message_name) ==
    IF message_name \in DOMAIN aircraft.message_definitions
    THEN aircraft.message_definitions[message_name]
    ELSE None

\* the Message dataclass
Message(timestamp, aircraft_id, message_type, message_id, raw_data, parsed_fields) ==
    [timestamp |-> timestamp, aircraft_id |-> aircraft_id,
     message_type |-> message_type, message_id |-> message_id,
     raw_data |-> raw_data, parsed_fields |-> parsed_fields]

MessageField(name, field_type) == [name |-> name, field_type |-> field_type]

MessageDefinition(name, message_id, fields) ==
    [name |-> name, message_id |-> message_id, fields |-> fields]

\* LogParser.parse_log hands every aircraft the one telemetry message map
CatalogOf(ac_ids, telemetry) ==
    [aircraft |-> [i \in 1..Len(ac_ids) |->
        [ac_id |-> ac_ids[i], message_definitions |-> telemetry]]]

\* a dict of message definitions keyed by name
DefsByName(defs) == [n \in {d.name : d \in defs} |-> CHOOSE d \in defs : d.name = n]

-----------------------------------------------------------------------------
(* struct.unpack / struct.pack, little-endian *)

Unpack_B(b) == b[1]
Unpack_b(b) == IF b[1] >= 128 THEN b[1] - 256 ELSE b[1]
Unpack_H(b) == b[1] + 256 * b[2]
Unpack_h(b) == IF b[2] >= 128 THEN b[1] + 256 * b[2] - 65536 ELSE b[1] + 256 * b[2]
Unpack_i(b) ==
    b[1] + 256 * b[2] + 65536 * b[3]
      + 16777216 * (IF b[4] >= 128 THEN b[4] - 256 ELSE b[4])
\* "<I": the unsigned value.  TLC's integers are 32 bits wide, so a value of
\* 2^31 or more is held as that value minus 2^32; the aircraft ids and the
\* uint32 values of the model are below 2^31, which no such number equals
Unpack_I(b) ==
    b[1] + 256 * b[2] + 65536 * b[3]
      + 16777216 * (IF b[4] >= 128 THEN b[4] - 256 ELSE b[4])
Unpack_f(b) == PyFloatBits(b)
Unpack_d(b) == PyFloatBits(b)

Pack_B(n) == <<n % 256>>
Pack_H(n) == <<n % 256, (n \div 256) % 256>>
Pack_I(n) == <<n % 256, (n \div 256) % 256, (n \div 65536) % 256, (n \div 16777216) % 256>>

-----------------------------------------------------------------------------
(* data_parser.py: DataParser *)

\* str.lower() on the type tags of the model
Lower(field_type) ==
    CASE field_type = "UINT8" -> "uint8"
      [] field_type = "Float" -> "float"
      [] OTHER -> field_type

\* field_type.startswith("char[")
StartsWithCharBracket(field_type) ==
    field_type \in {"char[2]", "char[0]", "char[-12]", "char[x]"}

\* int(field_type[5:-1]); ok is FALSE where int() raises ValueError
CharBufferLength(field_type) ==
    CASE field_type = "char[2]" -> [ok |-> TRUE, n |-> 2]
      [] field_type = "char[0]" -> [ok |-> TRUE, n |-> 0]
      [] field_type = "char[-12]" -> [ok |-> TRUE, n |-> 0 - 12]
      [] OTHER -> [ok |-> FALSE, n |-> 0]

RECURSIVE RStripNul(_)
\* str.rstrip("\0")
RStripNul(s) ==
    IF s # <<>> /\ s[Len(s)] = 0 THEN RStripNul(SubSeq(s, 1, Len(s) - 1)) ELSE s

FieldResult(value, field_length) ==
    [value |-> value, field_length |-> field_length, raised |-> FALSE]
FieldRaised == [value |-> None, field_length |-> 0, raised |-> TRUE]

\* one fixed-width type: None, 0 when fewer than width bytes remain
FixedWidth(data, width, value) ==
    IF Len(data) < width THEN FieldResult(None, 0) ELSE FieldResult(value, width)

\* the char[N] branch of _parse_field_value
ParseCharBuffer(data, field_type) ==
    LET length == CharBufferLength(field_type)
    IN  IF ~length.ok THEN FieldRaised
        ELSE IF Len(data) < length.n THEN FieldResult(PyStr(<<>>), Len(data))
        ELSE FieldResult(PyStr(RStripNul(DecodeAscii(SliceTo(data, length.n)))),
                         length.n)

\* DataParser._parse_field_value (the catalogs of the model hold no array type)
_parse_field_value(data, field) ==
    IF data = <<>> THEN FieldResult(None, 0)
    ELSE LET field_type == Lower(field.field_type)
         IN  CASE field_type \in {"float", "float32"} ->
                    FixedWidth(data, 4, Unpack_f(SliceTo(data, 4)))
               [] field_type \in {"double", "float64"} ->
                    FixedWidth(data, 8, Unpack_d(SliceTo(data, 8)))
               [] field_type \in {"int32", "int"} ->
                    FixedWidth(data, 4, PyInt(Unpack_i(SliceTo(data, 4))))
               [] field_type \in {"uint32", "uint"} ->
                    FixedWidth(data, 4, PyInt(Unpack_I(SliceTo(data, 4))))
               [] field_type \in {"int16", "short"} ->
                    FixedWidth(data, 2, PyInt(Unpack_h(SliceTo(data, 2))))
               [] field_type \in {"uint16", "ushort"} ->
                    FixedWidth(data, 2, PyInt(Unpack_H(SliceTo(data, 2))))
               [] field_type \in {"int8", "char"} ->
                    FixedWidth(data, 1, PyInt(Unpack_b(SliceTo(data, 1))))
               [] field_type \in {"uint8", "uchar"} ->
                    FixedWidth(data, 1, PyInt(Unpack_B(SliceTo(data, 1))))
               [] StartsWithCharBracket(field_type) ->
                    ParseCharBuffer(data, field_type)
               [] OTHER -> FieldResult(None, 0)

\* d[key] = value on a dict
DictSet(d, key, value) ==
    [k \in DOMAIN d \cup {key} |-> IF k = key THEN value ELSE d[k]]

RECURSIVE ParseFieldsFrom(_, _, _, _, _)
\* the for loop of _parse_message_fields from field number i on
ParseFieldsFrom(data, fields, i, parsed_fields, off) ==
    IF i > Len(fields) THEN [parsed_fields |-> parsed_fields, data_length |-> off]
    ELSE LET r == _parse_field_value(SliceFrom(data, off), fields[i])
         IN  IF r.raised
             THEN ParseFieldsFrom(data, fields, i + 1, parsed_fields, off)
             ELSE ParseFieldsFrom(data, fields, i + 1,
                                  DictSet(parsed_fields, fields[i].name, r.value),
                                  off + r.field_length)

\* DataParser._parse_message_fields
_parse_message_fields(data, fields) == ParseFieldsFrom(data, fields, 1, <<>>, 0)

\* DataParser._parse_string: the name up to the first null of data, or, when
\* data holds no null at all, up to its first space
_parse_string(data) ==
    LET first_null == Find(data, 0)
        space_pos == Find(data, 32)
        null_pos == IF first_null = -1 THEN space_pos ELSE first_null
    IN  IF null_pos = -1 THEN [string_val |-> <<>>, length |-> 0]
        ELSE [string_val |-> DecodeAscii(SliceTo(data, null_pos)),
              length |-> null_pos + 1]

NoMessage(bytes_consumed) == [message |-> None, bytes_consumed |-> bytes_consumed]

\* DataParser._parse_single_message, from the name on
ParseNamedMessage(config, data, timestamp, aircraft_id, aircraft) ==
    LET name == _parse_string(SliceFrom(data, 8))
        off == 8 + name.length
        message_def == get_message_definition(aircraft, name.string_val)
        parsed == _parse_message_fields(SliceFrom(data, off), message_def.fields)
    IN  IF name.string_val = <<>> THEN NoMessage(8)
        ELSE IF message_def = None THEN NoMessage(off)
        ELSE [message |-> Message(timestamp, aircraft_id, name.string_val,
                                  message_def.message_id,
                                  SliceTo(data, off + parsed.data_length),
                                  parsed.parsed_fields),
              bytes_consumed |-> off + parsed.data_length]

\* DataParser._parse_single_message
_parse_single_message(config, data) ==
    IF Len(data) < 8 THEN NoMessage(0)
    ELSE LET timestamp == Unpack_f(SubSeq(data, 1, 4))
             aircraft_id == Unpack_I(SubSeq(data, 5, 8))
             aircraft == get_aircraft_by_id(config, aircraft_id)
         IN  IF aircraft = None THEN NoMessage(8)
             ELSE ParseNamedMessage(config, data, timestamp, aircraft_id, aircraft)

\* ParseDataStep as it would be if the slip took bytes_consumed, the number
\* _parse_single_message returns beside None, for the one byte
ParseDataStepSlipConsumed(config, content, msgs, off) ==
    LET r == _parse_single_message(config, SliceFrom(content, off))
    IN  IF r.message # None
        THEN [messages |-> Append(msgs, r.message), offset |-> off + r.bytes_consumed]
        ELSE [messages |-> msgs, offset |-> off + Max(r.bytes_consumed, 1)]

\* one pass through the body of parse_data's while loop: the record is
\* appended and the offset moved past it, or the offset slips by one byte
ParseDataStep(config, content, msgs, off) ==
    LET r == _parse_single_message(config, SliceFrom(content, off))
    IN  IF r.message # None
        THEN [messages |-> Append(msgs, r.message), offset |-> off + r.bytes_consumed]
        ELSE [messages |-> msgs, offset |-> off + 1]

-----------------------------------------------------------------------------
(* str methods and number parsing, on sequences of code points *)

\* str.isspace() within ASCII: tab, LF, VT, FF, CR, FS, GS, RS, US, space
IsSpace(c) == c \in {9, 10, 11, 12, 13, 28, 29, 30, 31, 32}
IsDigit(c) == c >= 48 /\ c <= 57

\* the n-th smallest member of a set of positions
NthOf(S, n) == CHOOSE i \in S : Cardinality({j \in S : j <= i}) = n

\* str.strip(): from the first to the last character that is no whitespace
Strip(s) ==
    LET solid == {i \in 1..Len(s) : ~IsSpace(s[i])}
    IN  IF solid = {} THEN <<>>
        ELSE SubSeq(s, NthOf(solid, 1), NthOf(solid, Cardinality(solid)))

\* str.split(): the runs of non-whitespace
Split(s) ==
    LET starts == {i \in 1..Len(s) : ~IsSpace(s[i]) /\ (i = 1 \/ IsSpace(s[i - 1]))}
        stops == {i \in 1..Len(s) : ~IsSpace(s[i]) /\ (i = Len(s) \/ IsSpace(s[i + 1]))}
    IN  [n \in 1..Cardinality(starts) |-> SubSeq(s, NthOf(starts, n), NthOf(stops, n))]

\* str.split(c) for a one-character separator: the stretches between the c's
SplitOn(s, c) ==
    LET cuts == {i \in 1..Len(s) : s[i] = c}
        count == Cardinality(cuts)
    IN  [n \in 1..(count + 1) |->
            SubSeq(s, IF n = 1 THEN 1 ELSE NthOf(cuts, n - 1) + 1,
                      IF n = count + 1 THEN Len(s) ELSE NthOf(cuts, n) - 1)]

\* the ASCII line boundaries of str.splitlines(): LF, VT, FF, CR, FS, GS, RS
IsLineBreak(c) == c \in {10, 11, 12, 13, 28, 29, 30}

\* str.splitlines(): a line ends at a boundary character, CR LF counting as
\* one boundary; what follows the last boundary is a line when it is not empty
SplitLines(s) ==
    LET ends == {i \in 1..Len(s) :
                    /\ IsLineBreak(s[i])
                    /\ ~(s[i] = 13 /\ i < Len(s) /\ s[i + 1] = 10)}
        count == Cardinality(ends)
        last == IF count = 0 THEN 0 ELSE NthOf(ends, count)
        start(n) == IF n = 1 THEN 1 ELSE NthOf(ends, n - 1) + 1
        stop(n) ==
            IF n > count THEN Len(s)
            ELSE LET e == NthOf(ends, n)
                 IN  IF s[e] = 10 /\ e > 1 /\ s[e - 1] = 13
                     THEN e - 2 ELSE e - 1
    IN  [n \in 1..(IF last < Len(s) THEN count + 1 ELSE count) |->
            SubSeq(s, start(n), stop(n))]

RECURSIVE Join(_, _)
\* sep.join(parts)
Join(parts, sep) ==
    IF parts = <<>> THEN <<>>
    ELSE IF Len(parts) = 1 THEN parts[1]
    ELSE parts[1] \o sep \o Join(Tail(parts), sep)

\* str.lower() within ASCII
LowerChar(c) == IF c >= 65 /\ c <= 90 THEN c + 32 ELSE c
LowerStr(s) == [i \in 1..Len(s) |-> LowerChar(s[i])]

Contains(s, c) == \E i \in 1..Len(s) : s[i] = c

\* the words float() and _convert_value know
INF_WORD_1 == <<105, 110, 102>>                          \* "inf"
INF_WORD_2 == <<105, 110, 102, 105, 110, 105, 116, 121>>   \* "infinity"
NAN_WORD == <<110, 97, 110>>                            \* "nan"
TRUE_WORDS == {<<116, 114, 117, 101>>, <<121, 101, 115>>, <<49>>}    \* "true", "yes", "1"
FALSE_WORDS == {<<102, 97, 108, 115, 101>>, <<110, 111>>, <<48>>}  \* "false", "no", "0"
NONE_WORDS == {<<110, 97, 110>>, <<110, 117, 108, 108>>, <<110, 111, 110, 101>>}  \* "nan", "null", "none"

\* digits, with single underscores allowed between them
IsDigitPart(s) ==
    /\ s # <<>>
    /\ IsDigit(s[1]) /\ IsDigit(s[Len(s)])
    /\ \A i \in 1..Len(s) : IsDigit(s[i]) \/ s[i] = 95
    /\ \A i \in 1..(Len(s) - 1) : ~(s[i] = 95 /\ s[i + 1] = 95)
RECURSIVE DigitsValue(_, _)
DigitsValue(s, acc) ==
    IF s = <<>> THEN acc
    ELSE IF Head(s) = 95 THEN DigitsValue(Tail(s), acc)
    ELSE DigitsValue(Tail(s), 10 * acc + (Head(s) - 48))
DigitCount(s) == Len(SelectSeq(s, IsDigit))

HasSign(s) == s # <<>> /\ s[1] \in {43, 45}
Unsigned(s) == IF HasSign(s) THEN Tail(s) ELSE s
SignOf(s) == IF s # <<>> /\ s[1] = 45 THEN 0 - 1 ELSE 1

\* int(s) succeeds: whitespace around an optionally signed run of digits
IsIntLiteral(s) == IsDigitPart(Unsigned(Strip(s)))
IntValue(s) == SignOf(Strip(s)) * DigitsValue(Unsigned(Strip(s)), 0)

\* the pieces of a decimal float literal: digits . digits e exponent
Mantissa(u) ==
    LET lower == LowerStr(u)
    IN  IF Contains(lower, 101) THEN SliceTo(u, Find(lower, 101)) ELSE u
Exponent(u) ==
    LET lower == LowerStr(u)
    IN  IF Contains(lower, 101) THEN SliceFrom(u, Find(lower, 101) + 1) ELSE <<>>
IntPart(u) == IF Contains(Mantissa(u), 46) THEN SliceTo(Mantissa(u), Find(Mantissa(u), 46))
              ELSE Mantissa(u)
FracPart(u) == IF Contains(Mantissa(u), 46)
               THEN SliceFrom(Mantissa(u), Find(Mantissa(u), 46) + 1) ELSE <<>>
IsDecimalLiteral(u) ==
    /\ (IntPart(u) # <<>> \/ FracPart(u) # <<>>)
    /\ (IntPart(u) = <<>> \/ IsDigitPart(IntPart(u)))
    /\ (FracPart(u) = <<>> \/ IsDigitPart(FracPart(u)))
    /\ (Contains(LowerStr(u), 101) => IsDigitPart(Unsigned(Exponent(u))))
IsInfLiteral(u) == LowerStr(u) \in {INF_WORD_1, INF_WORD_2}
IsNanLiteral(u) == LowerStr(u) = NAN_WORD

\* float(s) succeeds
IsFloatLiteral(s) ==
    LET u == Unsigned(Strip(s))
    IN  IsDecimalLiteral(u) \/ IsInfLiteral(u) \/ IsNanLiteral(u)

RECURSIVE Normalised(_, _)
\* m * 10^e with the trailing zeros of m moved into e
Normalised(m, e) ==
    IF m = 0 THEN <<0, 0>>
    ELSE IF m % 10 = 0 THEN Normalised(m \div 10, e + 1) ELSE <<m, e>>

\* float(s), for a literal short enough to be exact: <<m, e>> is m * 10^e;
\* infinity is <<sign, 0, 1>> and nan <<0, 0, 2>>
FloatValue(s) ==
    LET u == Unsigned(Strip(s))
        sign == SignOf(Strip(s))
        exp == IF Exponent(u) = <<>> THEN 0
               ELSE SignOf(Exponent(u)) * DigitsValue(Unsigned(Exponent(u)), 0)
    IN  IF IsInfLiteral(u) THEN [t |-> "float", v |-> <<sign, 0, 1>>]
        ELSE IF IsNanLiteral(u) THEN [t |-> "float", v |-> <<0, 0, 2>>]
        ELSE [t |-> "float",
              v |-> Normalised(sign * DigitsValue(IntPart(u) \o FracPart(u), 0),
                               exp - DigitCount(FracPart(u)))]

-----------------------------------------------------------------------------
(* The catalogs and byte streams the binary decoder is run on *)

MaxRecords == 2     \* records in an interleaved stream
MaxMessages == 4    \* parse_data is followed until it holds this many messages
MaxTailLen == 2     \* bytes after the name of a message that cannot be encoded

\* telemetry with two short messages: G(x:int16, s:char[2], y:uint8), P(v:uint8)
TelemetrySane ==
    DefsByName({
        MessageDefinition(<<71>>, 1, <<MessageField("x", "int16"),
                                       MessageField("s", "char[2]"),
                                       MessageField("y", "uint8")>>),
        MessageDefinition(<<80>>, 2, <<MessageField("v", "uint8")>>)})

\* one message per type tag, each followed by a uint8 field z
TypedDef(letter, id, field_type) ==
    MessageDefinition(<<letter>>, id, <<MessageField("a", field_type),
                                        MessageField("z", "uint8")>>)

EncodableDefs ==
    {TypedDef(97, 11, "float32"), TypedDef(98, 12, "float64"),
     TypedDef(99, 13, "int32"),   TypedDef(100, 14, "uint32"),
     TypedDef(101, 15, "int16"),  TypedDef(102, 16, "uint16"),
     TypedDef(103, 17, "int8"),   TypedDef(104, 18, "UINT8"),
     TypedDef(105, 19, "char[2]"), TypedDef(106, 20, "Float"),
     TypedDef(107, 21, "double"), TypedDef(108, 22, "int"),
     TypedDef(109, 23, "uint"),   TypedDef(110, 24, "short"),
     TypedDef(111, 25, "ushort"), TypedDef(112, 26, "char"),
     TypedDef(113, 27, "uchar"),  TypedDef(114, 28, "char[0]")}

\* type tags no record can be encoded for: an unknown tag, a char buffer whose
\* length is no number, and one whose length is negative
UnencodableDefs ==
    {TypedDef(117, 31, "bogus"), TypedDef(118, 32, "char[x]"),
     MessageDefinition(<<119>>, 33, <<MessageField("a", "char[-12]")>>)}

TelemetryTypes == DefsByName(EncodableDefs \cup UnencodableDefs)

CatSane == CatalogOf(<<3>>, TelemetrySane)
CatTwo == CatalogOf(<<5, 3>>, TelemetrySane)
CatTypes == CatalogOf(<<3>>, TelemetryTypes)
CatEmpty == CatalogOf(<<>>, TelemetrySane)

\* the values a field of a type is encoded from
ValueSet(field_type) ==
    LET ft == Lower(field_type)
    IN  CASE ft \in {"float", "float32"} ->
               {PyFloatBits(<<0, 0, 192, 63>>), PyFloatBits(<<0, 0, 0, 0>>)}
          [] ft \in {"double", "float64"} ->
               {PyFloatBits(<<0, 0, 0, 0, 0, 0, 248, 63>>)}
          [] ft \in {"int32", "int"} -> {PyInt(1), PyInt(0 - 1)}
          [] ft \in {"uint32", "uint"} -> {PyInt(1), PyInt(16843009)}
          [] ft \in {"int16", "short"} -> {PyInt(350), PyInt(0 - 2)}
          [] ft \in {"uint16", "ushort"} -> {PyInt(350), PyInt(65535)}
          [] ft \in {"int8", "char"} -> {PyInt(5), PyInt(0 - 1)}
          [] ft \in {"uint8", "uchar"} -> {PyInt(7), PyInt(0)}
          [] ft = "char[2]" -> {PyStr(<<97, 98>>), PyStr(<<97>>)}
          [] ft = "char[0]" -> {PyStr(<<>>)}
          [] OTHER -> {}

RECURSIVE PadNul(_, _)
PadNul(s, n) == IF Len(s) >= n THEN s ELSE PadNul(Append(s, 0), n)

\* the little-endian bytes of one field value
EncodeValue(field_type, value) ==
    LET ft == Lower(field_type)
    IN  CASE ft \in {"float", "float32", "double", "float64"} -> value.v
          [] ft \in {"int32", "int", "uint32", "uint"} -> Pack_I(value.v)
          [] ft \in {"int16", "short", "uint16", "ushort"} -> Pack_H(value.v)
          [] ft \in {"int8", "char", "uint8", "uchar"} -> Pack_B(value.v)
          [] OTHER -> PadNul(value.v, CharBufferLength(ft).n)

RECURSIVE ValueTuples(_)
\* every tuple of values for a field list
ValueTuples(fields) ==
    IF fields = <<>> THEN {<<>>}
    ELSE {<<v>> \o rest : v \in ValueSet(Head(fields).field_type),
                          rest \in ValueTuples(Tail(fields))}

Timestamps == {<<0, 0, 192, 63>>, <<0, 0, 0, 64>>}   \* 1.5 and 2.0 as float32

HeaderBytes(ts, ac_id) == ts \o Pack_I(ac_id)

\* timestamp:f32 | aircraft_id:u32 | name, terminator | field bytes
EncodeRecord(ts, ac_id, def, term, vals) ==
    HeaderBytes(ts, ac_id) \o def.name \o <<term>>
      \o Concat([i \in 1..Len(vals) |-> EncodeValue(def.fields[i].field_type, vals[i])])

\* the Message a record was encoded from
OriginalMessage(ts, ac_id, def, term, vals) ==
    Message(PyFloatBits(ts), ac_id, def.name, def.message_id,
            EncodeRecord(ts, ac_id, def, term, vals),
            [n \in {def.fields[i].name : i \in 1..Len(vals)} |->
                vals[CHOOSE i \in 1..Len(vals) : def.fields[i].name = n]])

\* a piece of a stream: an encoded record, or bytes that are not one
RecordSeg(ts, ac_id, def, term, vals) ==
    [kind |-> "record", bytes |-> EncodeRecord(ts, ac_id, def, term, vals),
     original |-> OriginalMessage(ts, ac_id, def, term, vals), term |-> term]
GarbageSeg(bytes) ==
    [kind |-> "garbage", bytes |-> bytes, original |-> None, term |-> 0]

\* every record of a telemetry map, for aircraft 3, with the given terminators
RecordSegs(telemetry, terms) ==
    UNION {{RecordSeg(ts, 3, telemetry[n], term, vals) :
                ts \in Timestamps, term \in terms,
                vals \in ValueTuples(telemetry[n].fields)} : n \in DOMAIN telemetry}

\* the records put into interleaved streams: two P records, null-terminated
SmallRecords ==
    {RecordSeg(<<0, 0, 192, 63>>, 3, TelemetrySane[<<80>>], 0, <<PyInt(7)>>),
     RecordSeg(<<0, 0, 0, 64>>, 3, TelemetrySane[<<80>>], 0, <<PyInt(0)>>)}

\* garbage put between them: nothing, a stray byte, and record heads: the
\* timestamp and aircraft id 3 followed by the name P, by an empty name, and
\* by an empty name and then a second head with the unknown name Q
GarbageRuns ==
    {<<>>, <<255>>, <<0>>,
     HeaderBytes(<<0, 0, 192, 63>>, 3) \o <<80, 0>>,
     HeaderBytes(<<0, 0, 192, 63>>, 3) \o <<0>>,
     HeaderBytes(<<0, 0, 192, 63>>, 3) \o <<0>>
        \o HeaderBytes(<<0, 0, 192, 63>>, 3) \o <<81, 0>>}

RECURSIVE Interleaved(_)
\* garbage, then n times a record and garbage
Interleaved(n) ==
    IF n = 0 THEN {<<GarbageSeg(g)>> : g \in GarbageRuns}
    ELSE {p \o <<r, GarbageSeg(g)>> :
            p \in Interleaved(n - 1), r \in SmallRecords, g \in GarbageRuns}

Prefixes(bytes) == {SubSeq(bytes, 1, n) : n \in 0..(Len(bytes) - 1)}

\* the head of a record of a message with no encoding, and a few bytes more
RawStreams ==
    {HeaderBytes(<<0, 0, 192, 63>>, 3) \o d.name \o <<0>> \o tail :
        d \in UnencodableDefs, tail \in SeqsUpTo({0, 65, 255}, MaxTailLen)}

Scenario(config, p) == [config |-> config, plan |-> p]

BinScenarios ==
    {Scenario(c, p) : c \in {CatSane, CatTwo, CatEmpty},
                      p \in UNION {Interleaved(n) : n \in 0..MaxRecords}}
    \cup {Scenario(CatSane, <<r>>) : r \in RecordSegs(TelemetrySane, {0, 32})}
    \cup {Scenario(CatTypes, <<r>>) : r \in RecordSegs(TelemetryTypes, {0, 32})}
    \cup {Scenario(CatTypes, <<GarbageSeg(b)>>) :
            b \in UNION {Prefixes(r.bytes) : r \in RecordSegs(TelemetryTypes, {0})}}
    \cup {Scenario(CatTypes, <<GarbageSeg(b)>>) : b \in RawStreams}

PlanBytes(p) == Concat([i \in 1..Len(p) |-> p[i].bytes])

-----------------------------------------------------------------------------
(* DataParser.parse_data as a state machine *)

\* no SimpleDataParser call log, no LogParser and no version guard in play
CallsIdle == parser_config = <<>> /\ calls = <<>>
LogIdle == message_classes = <<>> /\ log_history = <<>> /\ outcome = None
GuardIdle ==
    /\ version_file = None /\ sessions = <<>> /\ parser_hash = 0 /\ reprocess = None
ConvertIdle == value_str = <<>> /\ converted = None
FilesIdle == disk = <<>> /\ last_pair = None
WatchIdle == thread_pc = <<>> /\ in_flight = <<>> /\ todo = <<>> /\ input_pairs = {}
HashIdle == source_files = <<>> /\ hash_calls = <<>>

InitBin ==
    \E sc \in BinScenarios :
        /\ aircraft_config = sc.config
        /\ plan = sc.plan
        /\ data_content = PlanBytes(sc.plan)
        /\ messages = <<>>
        /\ offset = 0
        /\ line_no = 0
        /\ pc = "bin"
        /\ CallsIdle /\ LogIdle /\ GuardIdle /\ ConvertIdle /\ HashIdle /\ WatchIdle /\ FilesIdle

\* one iteration of the while loop
BinIterate ==
    /\ pc = "bin"
    /\ offset < Len(data_content)
    /\ Len(messages) < MaxMessages
    /\ LET step == ParseDataStep(aircraft_config, data_content, messages, offset)
       IN  /\ messages' = step.messages
           /\ offset' = step.offset
    /\ UNCHANGED <<data_content, aircraft_config, line_no, pc, plan>>
    /\ UNCHANGED <<callVars, logVars, guardVars, convertVars, hashVars, watchVars, fsVars>>

\* the loop condition fails: return messages
BinReturn ==
    /\ pc = "bin"
    /\ ~(offset < Len(data_content))
    /\ pc' = "done"
    /\ UNCHANGED <<data_content, aircraft_config, messages, offset, line_no, plan>>
    /\ UNCHANGED <<callVars, logVars, guardVars, convertVars, hashVars, watchVars, fsVars>>

NextBin == BinIterate \/ BinReturn

SpecBin == InitBin /\ [][NextBin]_vars

-----------------------------------------------------------------------------
(* Claims about the binary decoder *)

\* the stream positions (0-based) of the pieces of a plan
SegStart(p, i) == Len(PlanBytes(SubSeq(p, 1, i - 1)))
GarbageOffsets(p) ==
    UNION {{SegStart(p, i) + k : k \in 0..(Len(p[i].bytes) - 1)} :
             i \in {j \in 1..Len(p) : p[j].kind = "garbage"}}
RecordIndices(p) == {i \in 1..Len(p) : p[i].kind = "record"}

RECURSIVE Originals(_)
\* the messages the records of a plan were encoded from, in stream order
Originals(p) ==
    IF p = <<>> THEN <<>>
    ELSE IF Head(p).kind = "record" THEN <<Head(p).original>> \o Originals(Tail(p))
    ELSE Originals(Tail(p))

\* every record of the plan is one of the catalog: its aircraft and message
\* are known there
ValidRecords(config, p) ==
    \A i \in RecordIndices(p) :
        LET aircraft == get_aircraft_by_id(config, p[i].original.aircraft_id)
        IN  /\ aircraft # None
            /\ get_message_definition(aircraft, p[i].original.message_type) # None

NullTerminated(p) == \A i \in RecordIndices(p) : p[i].term = 0

\* no decode attempt that starts inside a garbage run yields a record
GarbageNeverDecodes(config, p) ==
    \A o \in GarbageOffsets(p) :
        _parse_single_message(config, SliceFrom(PlanBytes(p), o)).message = None

TooShort(data) == Len(data) < 8
UnknownAircraft(config, data) ==
    /\ ~TooShort(data)
    /\ \A i \in 1..Len(config.aircraft) :
          config.aircraft[i].ac_id # Unpack_I(SubSeq(data, 5, 8))
NameAt(data) == _parse_string(SliceFrom(data, 8)).string_val
EmptyName(config, data) ==
    ~TooShort(data) /\ ~UnknownAircraft(config, data) /\ NameAt(data) = <<>>
UndefinedName(config, data) ==
    /\ ~TooShort(data) /\ ~UnknownAircraft(config, data) /\ NameAt(data) # <<>>
    /\ NameAt(data) \notin DOMAIN
          get_aircraft_by_id(config, Unpack_I(SubSeq(data, 5, 8))).message_definitions
CannotDecode(config, data) ==
    \/ TooShort(data) \/ UnknownAircraft(config, data)
    \/ EmptyName(config, data) \/ UndefinedName(config, data)

Rest == SliceFrom(data_content, offset)

\* C2: an iteration at an offset where no record can be produced (fewer than 8
\* bytes, unknown aircraft id, empty name, name not defined) appends nothing
\* and moves the offset by exactly one byte
C2_SingleByteSlip ==
    [][(pc = "bin" /\ offset < Len(data_content)
          /\ CannotDecode(aircraft_config, Rest))
        => (messages' = messages /\ offset' = offset + 1 /\ pc' = "bin")]_vars

\* a stream decoded to its end without one record, every offset having been
\* slipped over, with all four reasons among its offsets
C2_Witness ==
    /\ pc = "done" /\ messages = <<>> /\ offset = Len(data_content)
    /\ \E o \in 0..(Len(data_content) - 1) : TooShort(SliceFrom(data_content, o))
    /\ \E o \in 0..(Len(data_content) - 1) :
          UnknownAircraft(aircraft_config, SliceFrom(data_content, o))
    /\ \E o \in 0..(Len(data_content) - 1) :
          EmptyName(aircraft_config, SliceFrom(data_content, o))
    /\ \E o \in 0..(Len(data_content) - 1) :
          UndefinedName(aircraft_config, SliceFrom(data_content, o))

\* C3: every iteration of parse_data's loop strictly increases the offset (so
\* the loop ends, the offset having reached the stream length)
C3_OffsetStrictlyIncreases ==
    [][(pc = "bin" /\ pc' = "bin") => offset' > offset]_vars


\* C27: parse_data partitions the stream.  In every turn of the loop the
\* offset stays within 0..len(data_content) and does not decrease, and the
\* turn either slips over one byte, appending nothing, or appends one record
\* whose raw_data is the bytes from the old offset up to the new one; the
\* spans of the records are then disjoint, lie in stream order, and every
\* byte is slipped over or lies in the span of exactly one record
C27_DecodePartitionsStream ==
    [][(pc = "bin" /\ pc' = "bin")
        => /\ 0 <= offset' /\ offset' <= Len(data_content)
           /\ offset' >= offset
           /\ \/ messages' = messages /\ offset' = offset + 1
              \/ /\ Len(messages') = Len(messages) + 1
                 /\ SubSeq(messages', 1, Len(messages)) = messages
                 /\ offset' > offset
                 /\ messages'[Len(messages')].raw_data
                        = SubSeq(data_content, offset + 1, offset')]_vars

\* the record head at offset 0 of the stream, when there is one
HeadDecodes == ~CannotDecode(aircraft_config, data_content)
HeadDef ==
    get_aircraft_by_id(aircraft_config, Unpack_I(SubSeq(data_content, 5, 8)))
        .message_definitions[NameAt(data_content)]
BytesAfterName ==
    Len(data_content) - (8 + _parse_string(SliceFrom(data_content, 8)).length)
OnlyHeadDecodes ==
    \A o \in 1..(Len(data_content) - 1) :
        CannotDecode(aircraft_config, SliceFrom(data_content, o))

\* the fixed widths of the field codec: float32 4, float64 8, int8/uint8 1,
\* int16/uint16 2, int32/uint32 4, char[N] N
IsFixedWidthTag(field_type) ==
    \/ field_type \in {"float32", "float64", "int8", "int16", "int32",
                       "uint8", "uint16", "uint32"}
    \/ (StartsWithCharBracket(field_type) /\ CharBufferLength(field_type).ok
          /\ CharBufferLength(field_type).n >= 0)
WidthOfTag(field_type) ==
    CASE field_type \in {"float32", "int32", "uint32"} -> 4
      [] field_type = "float64" -> 8
      [] field_type \in {"int16", "uint16"} -> 2
      [] field_type \in {"int8", "uint8"} -> 1
      [] OTHER -> CharBufferLength(field_type).n
IsKnownTag(field_type) ==
    \/ Lower(field_type) \in {"float", "float32", "double", "float64", "int32", "int",
                              "uint32", "uint", "int16", "short", "uint16", "ushort",
                              "int8", "char", "uint8", "uchar"}
    \/ StartsWithCharBracket(Lower(field_type))
TagRaises(field_type) ==
    StartsWithCharBracket(Lower(field_type)) /\ ~CharBufferLength(Lower(field_type)).ok

Absent(m, field_name) ==
    field_name \notin DOMAIN m.parsed_fields \/ m.parsed_fields[field_name] = None

\* the first field of the head's message cannot be decoded: its tag is
\* unknown, or raises, or fewer bytes remain than its fixed width
FirstFieldFails ==
    LET ft == HeadDef.fields[1].field_type
    IN  \/ ~IsKnownTag(ft)
        \/ TagRaises(ft)
        \/ (IsFixedWidthTag(ft) /\ BytesAfterName < WidthOfTag(ft))

\* C4: once the head at offset 0 resolves, one record is emitted for it
\* whatever happens in its fields (and no second one when nothing else in the
\* stream decodes); a first field that is truncated, of unknown type or
\* raising is absent from it, and every field that does not raise is recorded
C4_FieldFailureKeepsRecord ==
    HeadDecodes =>
        /\ (pc = "done" => Len(messages) >= 1)
        /\ (OnlyHeadDecodes => Len(messages) <= 1)
        /\ (Len(messages) >= 1 /\ HeadDef.fields # <<>>) =>
              /\ FirstFieldFails => Absent(messages[1], HeadDef.fields[1].name)
              /\ \A i \in 1..Len(HeadDef.fields) :
                    ~TagRaises(HeadDef.fields[i].field_type) =>
                        HeadDef.fields[i].name \in DOMAIN messages[1].parsed_fields

\* C5: a first field of a fixed-width type with fewer bytes left than its
\* width decodes to the absent value
C5_TruncatedFieldAbsent ==
    (/\ HeadDecodes
     /\ Len(messages) >= 1
     /\ HeadDef.fields # <<>>
     /\ IsFixedWidthTag(HeadDef.fields[1].field_type)
     /\ BytesAfterName < WidthOfTag(HeadDef.fields[1].field_type))
        => Absent(messages[1], HeadDef.fields[1].name)

\* C5 for the types other than char[N], which the code does decode to None
C5_TruncatedNumberAbsent ==
    (/\ HeadDecodes
     /\ Len(messages) >= 1
     /\ HeadDef.fields # <<>>
     /\ IsFixedWidthTag(HeadDef.fields[1].field_type)
     /\ ~StartsWithCharBracket(HeadDef.fields[1].field_type)
     /\ BytesAfterName < WidthOfTag(HeadDef.fields[1].field_type))
        => Absent(messages[1], HeadDef.fields[1].name)

\* C6: one encoded record of a known message, its name ended by a null or by
\* a space, decodes to exactly the record it was encoded from
C6_RoundTrip ==
    (/\ pc = "done"
     /\ Len(plan) = 1
     /\ plan[1].kind = "record"
     /\ ValidRecords(aircraft_config, plan))
        => messages = <<plan[1].original>>

\* C6 with the name ended by a null only
C6_RoundTripNull ==
    (/\ pc = "done"
     /\ Len(plan) = 1
     /\ plan[1].kind = "record"
     /\ plan[1].term = 0
     /\ ValidRecords(aircraft_config, plan))
        => messages = <<plan[1].original>>

-----------------------------------------------------------------------------
(* SimpleDataParser: the text decoder *)

\* a variant that looks for the special words before it tries the numbers
_convert_value_WordsFirst(token) ==
    LET v == Strip(token)
        lower == LowerStr(v)
    IN  IF v = <<>> \/ v = <<45>> THEN None
        ELSE IF lower \in TRUE_WORDS THEN PyBool(TRUE)
        ELSE IF lower \in FALSE_WORDS THEN PyBool(FALSE)
        ELSE IF lower \in NONE_WORDS THEN None
        ELSE IF ~Contains(v, 46) /\ ~Contains(lower, 101) /\ IsIntLiteral(v)
             THEN PyInt(IntValue(v))
        ELSE IF (Contains(v, 46) \/ Contains(lower, 101)) /\ IsFloatLiteral(v)
             THEN FloatValue(v)
        ELSE PyStr(v)

\* _convert_value
_convert_value(token) ==
    LET v == Strip(token)
        lower == LowerStr(v)
    IN  IF v = <<>> \/ v = <<45>> THEN None
        ELSE IF ~Contains(v, 46) /\ ~Contains(lower, 101) /\ IsIntLiteral(v)
             THEN PyInt(IntValue(v))
        ELSE IF (Contains(v, 46) \/ Contains(lower, 101)) /\ IsFloatLiteral(v)
             THEN FloatValue(v)
        ELSE IF lower \in TRUE_WORDS THEN PyBool(TRUE)
        ELSE IF lower \in FALSE_WORDS THEN PyBool(FALSE)
        ELSE IF lower \in NONE_WORDS THEN None
        ELSE PyStr(v)

\* the field names of the first aircraft of the catalog that defines
\* message_name, or [] when none does
FieldNamesOf(config, message_name) ==
    LET hits == {i \in 1..Len(config.aircraft) :
                    get_message_definition(config.aircraft[i], message_name) # None}
    IN  IF hits = {} THEN <<>>
        ELSE LET first == CHOOSE i \in hits : \A j \in hits : i <= j
                 msg_def == get_message_definition(config.aircraft[first], message_name)
             IN  [i \in 1..Len(msg_def.fields) |-> msg_def.fields[i].name]

\* the data part cut into values: on commas when it has one, else on whitespace
SplitValues(data_part) ==
    IF Contains(data_part, 44)
    THEN LET cut == SplitOn(data_part, 44) IN [i \in 1..Len(cut) |-> Strip(cut[i])]
    ELSE Split(data_part)

\* f"field_{i}"
FieldKey(i) ==
    CASE i = 0 -> "field_0" [] i = 1 -> "field_1" [] i = 2 -> "field_2"
      [] i = 3 -> "field_3" [] i = 4 -> "field_4" [] i = 5 -> "field_5"
      [] OTHER -> "field_n"

\* a variant that gives declared field i the value after its own
MapFieldNamesShifted(field_names, converted_values) ==
    [k \in {field_names[i] : i \in 1..Min(Len(field_names), Len(converted_values) - 1)} |->
        converted_values[(CHOOSE i \in 1..Len(field_names) : field_names[i] = k) + 1]]

\* declared field i takes value i, as far as the values go
MapFieldNames(field_names, converted_values) ==
    [k \in {field_names[i] : i \in 1..Min(Len(field_names), Len(converted_values))} |->
        converted_values[CHOOSE i \in 1..Len(field_names) : field_names[i] = k]]

\* value i goes under the generic name field_i
MapGenericNames(converted_values) ==
    [k \in {FieldKey(i - 1) : i \in 1..Len(converted_values)} |->
        converted_values[CHOOSE i \in 1..Len(converted_values) : FieldKey(i - 1) = k]]

\* _parse_message_data
_parse_message_data(config, data_part, message_name) ==
    LET field_names == FieldNamesOf(config, message_name)
        values == SplitValues(data_part)
        converted_values == [i \in 1..Len(values) |-> _convert_value(values[i])]
        mapped == IF field_names # <<>>
                  THEN MapFieldNames(field_names, converted_values)
                  ELSE MapGenericNames(converted_values)
    IN  DictSet(DictSet(mapped, "_raw_values", PyList(converted_values)),
                "_raw_data", PyStr(data_part))

\* the message_id of the line's own aircraft and message, 0 when unresolved
MessageIdOf(config, aircraft_id, message_name) ==
    LET aircraft == get_aircraft_by_id(config, aircraft_id)
    IN  IF aircraft = None THEN 0
        ELSE LET msg_def == get_message_definition(aircraft, message_name)
             IN  IF msg_def = None THEN 0 ELSE msg_def.message_id

\* _parse_line: None for a line with fewer than three parts, or when float()
\* or int() raises ValueError
_parse_line(config, line) ==
    LET parts == Split(line)
    IN  IF Len(parts) < 3 THEN None
        ELSE IF ~IsFloatLiteral(parts[1]) \/ ~IsIntLiteral(parts[2]) THEN None
        ELSE LET timestamp == FloatValue(parts[1])
                 aircraft_id == IntValue(parts[2])
                 message_name == parts[3]
                 data_part == Join(SubSeq(parts, 4, Len(parts)), <<32>>)
                 parsed_fields == IF Len(parts) > 3
                                  THEN _parse_message_data(config, data_part, message_name)
                                  ELSE <<>>
             IN  Message(timestamp, aircraft_id, message_name,
                         MessageIdOf(config, aircraft_id, message_name),
                         line, parsed_fields)

\* a variant that gives up the whole stream at the first line it cannot parse
ParseLineStepGivingUp(config, msgs, raw_line) ==
    LET line == Strip(raw_line)
    IN  IF line = <<>> \/ line[1] = 35 THEN <<>>
        ELSE LET message == _parse_line(config, line)
             IN  IF message # None THEN Append(msgs, message) ELSE <<>>

\* one turn of the loop of parse_data: the message list after this line
ParseLineStep(config, msgs, raw_line) ==
    LET line == Strip(raw_line)
    IN  IF line = <<>> \/ line[1] = 35 THEN msgs
        ELSE LET message == _parse_line(config, line)
             IN  IF message # None THEN Append(msgs, message) ELSE msgs

\* text_content.splitlines() of the decoded stream
TextLines(content) == SplitLines(DecodeUtf8(content))

-----------------------------------------------------------------------------
(* The catalogs and text streams the text decoder is run on *)

\* the longest stream of mixed good and bad lines
MaxLines == 3

GPS == <<71, 80, 83>>        \* "GPS"
PING == <<80, 73, 78, 71>>  \* "PING"
FOO == <<70, 79, 79>>        \* "FOO", a name no catalog defines

\* GPS declares lat, lon, alt; PING declares no field
TelemetryText ==
    DefsByName({
        MessageDefinition(GPS, 8, <<MessageField("lat", "float"),
                                    MessageField("lon", "float"),
                                    MessageField("alt", "int16")>>),
        MessageDefinition(PING, 9, <<>>)})

TextCatOne == CatalogOf(<<3>>, TelemetryText)
TextCatTwo == CatalogOf(<<5, 3>>, TelemetryText)
TextCatalogs == {TextCatOne, TextCatTwo, CatEmpty}

\* first tokens: the text, whether float() takes it, and the float it names
TimestampTokens ==
    {[text |-> <<49, 50, 46, 53>>, ok |-> TRUE, value |-> PyFloatDec(125, 0 - 1)],   \* "12.5"
     [text |-> <<55>>, ok |-> TRUE, value |-> PyFloatDec(7, 0)],                    \* "7"
     [text |-> <<120, 49>>, ok |-> FALSE, value |-> None]}                              \* "x1"

\* second tokens: the text, whether int() takes it, and the integer it names
AircraftIdTokens ==
    {[text |-> <<51>>, ok |-> TRUE, value |-> 3],         \* "3"
     [text |-> <<57, 57>>, ok |-> TRUE, value |-> 99],    \* "99", in no catalog
     [text |-> <<51, 46, 53>>, ok |-> FALSE, value |-> 0]}  \* "3.5"

\* what follows the message name, and the values it spells
DataParts ==
    {[text |-> <<>>, values |-> <<>>],
     [text |-> <<52, 56, 46, 49, 44, 49, 49, 46, 53, 44, 51, 53, 48>>,                   \* "48.1,11.5,350"
      values |-> <<PyFloatDec(481, 0 - 1), PyFloatDec(115, 0 - 1), PyInt(350)>>],
     [text |-> <<49, 32, 50, 32, 51, 32, 52>>,                         \* "1 2 3 4"
      values |-> <<PyInt(1), PyInt(2), PyInt(3), PyInt(4)>>],
     [text |-> <<45, 53, 44, 32, 50, 101, 49>>,                         \* "-5, 2e1"
      values |-> <<PyInt(0 - 5), PyFloatDec(2, 1)>>],
     [text |-> <<45, 44, 116, 114, 117, 101>>,                          \* "-,true"
      values |-> <<None, PyBool(TRUE)>>],
     [text |-> <<97, 98, 99>>,                             \* "abc"
      values |-> <<PyStr(<<97, 98, 99>>)>>]}

\* one line of a stream and what it spells; kind is "record" when the line has
\* a float, an integer and a name, "bad" when it lacks one of them
TextLine(kind, bytes, ts, id, name, data) ==
    [kind |-> kind, bytes |-> bytes, timestamp |-> ts, aircraft_id |-> id,
     message_name |-> name, values |-> data.values, data_part |-> data.text]

LineOf(ts, id, name, data) ==
    TextLine(IF ts.ok /\ id.ok THEN "record" ELSE "bad",
             ts.text \o <<32>> \o id.text \o <<32>> \o name
                \o (IF data.text = <<>> THEN <<>> ELSE <<32>> \o data.text),
             ts.value, id.value, name, data)

NoLine(kind, bytes) ==
    TextLine(kind, bytes, None, 0, <<>>, [text |-> <<>>, values |-> <<>>])

AllLines ==
    {LineOf(ts, id, name, data) : ts \in TimestampTokens, id \in AircraftIdTokens,
                                  name \in {GPS, PING, FOO}, data \in DataParts}

BlankLine == NoLine("blank", <<32, 9>>)
CommentLine == NoLine("comment", <<32, 32, 35, 32, 49, 32, 51, 32, 71, 80, 83, 32, 49>>)  \* "  # 1 3 GPS 1"
ShortLine == NoLine("bad", <<49, 50, 46, 53, 32, 51>>)      \* "12.5 3"
NameOnlyLine == NoLine("bad", <<71, 80, 83>>)                  \* "GPS"

TimestampToken(text) == CHOOSE ts \in TimestampTokens : ts.text = text
AircraftIdToken(text) == CHOOSE id \in AircraftIdTokens : id.text = text
ThreeValues == CHOOSE data \in DataParts : Len(data.values) = 3

\* "12.5 3 GPS 48.1,11.5,350" and the same line with a bad first or second token
GoodLine == LineOf(TimestampToken(<<49, 50, 46, 53>>), AircraftIdToken(<<51>>), GPS, ThreeValues)
BadTimestampLine == LineOf(TimestampToken(<<120, 49>>), AircraftIdToken(<<51>>), GPS, ThreeValues)
BadAircraftIdLine == LineOf(TimestampToken(<<49, 50, 46, 53>>), AircraftIdToken(<<51, 46, 53>>), GPS, ThreeValues)

\* the lines that are mixed into longer streams
MixLines ==
    {GoodLine, BlankLine, CommentLine, ShortLine, BadTimestampLine, BadAircraftIdLine}

\* the line ends written between the lines
LineEnds == {<<10>>, <<13, 10>>}

TextPlans ==
    {<<l>> : l \in AllLines \cup {NameOnlyLine}}
    \cup SeqsUpTo(MixLines, MaxLines)

TextScenarios ==
    {[config |-> c, plan |-> p, line_end |-> e] :
        c \in TextCatalogs, p \in TextPlans, e \in LineEnds}

TextBytes(p, line_end) == Concat([i \in 1..Len(p) |-> p[i].bytes \o line_end])

-----------------------------------------------------------------------------
(* SimpleDataParser.parse_data as a state machine *)

InitText ==
    \E sc \in TextScenarios :
        /\ aircraft_config = sc.config
        /\ plan = sc.plan
        /\ data_content = TextBytes(sc.plan, sc.line_end)
        /\ messages = <<>>
        /\ offset = 0
        /\ line_no = 0
        /\ pc = "text"
        /\ CallsIdle /\ LogIdle /\ GuardIdle /\ ConvertIdle /\ HashIdle /\ WatchIdle /\ FilesIdle

\* one turn of the for loop over the lines
TextIterate ==
    /\ pc = "text"
    /\ line_no < Len(TextLines(data_content))
    /\ messages' = ParseLineStep(aircraft_config, messages,
                                 TextLines(data_content)[line_no + 1])
    /\ line_no' = line_no + 1
    /\ UNCHANGED <<data_content, aircraft_config, offset, pc, plan>>
    /\ UNCHANGED <<callVars, logVars, guardVars, convertVars, hashVars, watchVars, fsVars>>

\* the loop is over: return messages
TextReturn ==
    /\ pc = "text"
    /\ ~(line_no < Len(TextLines(data_content)))
    /\ pc' = "done"
    /\ UNCHANGED <<data_content, aircraft_config, messages, offset, line_no, plan>>
    /\ UNCHANGED <<callVars, logVars, guardVars, convertVars, hashVars, watchVars, fsVars>>

NextText == TextIterate \/ TextReturn

SpecText == InitText /\ [][NextText]_vars

-----------------------------------------------------------------------------
(* Claims about the text decoder *)

IsRecordLine(l) == l.kind = "record"
\* the lines of the stream that have a float, an integer and a name
RecordLines == SelectSeq(plan, IsRecordLine)

\* the catalog resolves the line's own aircraft id and, for it, the message name
Resolved(l) ==
    /\ get_aircraft_by_id(aircraft_config, l.aircraft_id) # None
    /\ get_message_definition(get_aircraft_by_id(aircraft_config, l.aircraft_id),
                              l.message_name) # None
\* the field names the resolved message declares, in declared order
DeclaredNames(l) ==
    LET msg_def == get_message_definition(
                       get_aircraft_by_id(aircraft_config, l.aircraft_id), l.message_name)
    IN  [i \in 1..Len(msg_def.fields) |-> msg_def.fields[i].name]

\* name i |-> value i for the names that have a value
Positional(names, values) ==
    [k \in {names[i] : i \in 1..Min(Len(names), Len(values))} |->
        values[CHOOSE i \in 1..Len(names) : names[i] = k]]

GenericNames(m) == {FieldKey(i - 1) : i \in 1..m}
DiagnosticNames == {"_raw_values", "_raw_data"}

\* record j carries the timestamp, aircraft id and message name of line l
CarriesHeader(j, l) ==
    /\ messages[j].timestamp = l.timestamp
    /\ messages[j].aircraft_id = l.aircraft_id
    /\ messages[j].message_type = l.message_name

\* C7 as stated: when the stream is decoded, the record of every line whose
\* aircraft id and message name resolve carries the line's timestamp, aircraft
\* id and message name, and its field map is exactly the declared field names
\* mapped positionally to the line's values
C7_ResolvedFieldsExactly ==
    pc = "done" =>
        /\ Len(messages) = Len(RecordLines)
        /\ \A j \in 1..Len(RecordLines) :
              Resolved(RecordLines[j]) =>
                 /\ CarriesHeader(j, RecordLines[j])
                 /\ messages[j].parsed_fields =
                        Positional(DeclaredNames(RecordLines[j]), RecordLines[j].values)

\* the field map the decoder builds for a resolved line l
ResolvedFieldMap(l, f) ==
    LET names == DeclaredNames(l)
        k == Len(names)
        m == Len(l.values)
    IN  IF m = 0 THEN f = <<>>
        ELSE /\ DOMAIN f = {names[i] : i \in 1..Min(k, m)} \cup DiagnosticNames
                              \cup (IF k = 0 THEN GenericNames(m) ELSE {})
             /\ \A i \in 1..Min(k, m) : f[names[i]] = l.values[i]
             /\ k = 0 => \A i \in 1..m : f[FieldKey(i - 1)] = l.values[i]
             /\ f["_raw_values"] = PyList(l.values)
             /\ f["_raw_data"] = PyStr(l.data_part)

\* C7: when the stream is decoded, the record of every line whose aircraft id
\* and message name resolve carries the line's timestamp, aircraft id and
\* message name; a line without values has an empty field map, and a line with
\* values has the declared names mapped positionally to the values, then
\* _raw_values (all the values) and _raw_data (the text after the name), and,
\* for a message that declares no field, the values under field_0, field_1, ...
C7_ResolvedFieldsPositional ==
    pc = "done" =>
        /\ Len(messages) = Len(RecordLines)
        /\ \A j \in 1..Len(RecordLines) :
              Resolved(RecordLines[j]) =>
                 /\ CarriesHeader(j, RecordLines[j])
                 /\ ResolvedFieldMap(RecordLines[j], messages[j].parsed_fields)

\* the decoded stream of "12.5 3 GPS 48.1,11.5,350" with aircraft 3 and GPS in
\* the catalog: one record, with alt = 350
C7_Witness ==
    /\ pc = "done"
    /\ plan = <<GoodLine>>
    /\ Resolved(GoodLine)
    /\ Len(messages) = 1
    /\ messages[1].parsed_fields["alt"] = PyInt(350)

\* C8 as stated: when the stream is decoded, the record of every line whose
\* aircraft id is not in the catalog, or whose message name is not defined for
\* that aircraft, names the line's values field_0, field_1, ... in value order
C8_UnresolvedGenericNames ==
    pc = "done" =>
        /\ Len(messages) = Len(RecordLines)
        /\ \A j \in 1..Len(RecordLines) :
              ~Resolved(RecordLines[j]) =>
                 \A i \in 1..Len(RecordLines[j].values) :
                    /\ FieldKey(i - 1) \in DOMAIN messages[j].parsed_fields
                    /\ messages[j].parsed_fields[FieldKey(i - 1)] = RecordLines[j].values[i]

\* what holds of unresolved lines: when no aircraft of the catalog defines the
\* message name, the values are named field_0, field_1, ...
C8_UndefinedNameGeneric ==
    pc = "done" =>
        /\ Len(messages) = Len(RecordLines)
        /\ \A j \in 1..Len(RecordLines) :
              FieldNamesOf(aircraft_config, RecordLines[j].message_name) = <<>> =>
                 \A i \in 1..Len(RecordLines[j].values) :
                    /\ FieldKey(i - 1) \in DOMAIN messages[j].parsed_fields
                    /\ messages[j].parsed_fields[FieldKey(i - 1)] = RecordLines[j].values[i]

\* C9: when the stream is decoded, the records are those of the lines that have
\* a float, an integer and a name, each decoded as on its own and in order:
\* lines with fewer than three tokens, with a first token that is no float or a
\* second that is no integer, blank lines and comment lines leave no record and
\* do not disturb the others
C9_BadLinesSkipped ==
    pc = "done" =>
        messages = [j \in 1..Len(RecordLines) |->
                       _parse_line(aircraft_config, Strip(RecordLines[j].bytes))]

\* a decoded stream with a bad line before and after a good one
C9_Witness ==
    /\ pc = "done"
    /\ plan \in {<<bad, GoodLine, other>> :
                    bad \in {ShortLine, BadTimestampLine, BadAircraftIdLine},
                    other \in {BlankLine, CommentLine, ShortLine}}
    /\ Len(messages) = 1
    /\ messages[1].timestamp = PyFloatDec(125, 0 - 1)

\* C10 as stated: when the stream is decoded, for every resolved line with k
\* declared fields and m values the first min(k, m) fields have the first
\* min(k, m) values, no value beyond them gets a field (only the two
\* diagnostic entries are added), and the trailing k - m fields are absent
C10_FieldCountMismatch ==
    pc = "done" =>
        /\ Len(messages) = Len(RecordLines)
        /\ \A j \in 1..Len(RecordLines) :
              (Resolved(RecordLines[j]) /\ RecordLines[j].values # <<>>) =>
                 LET names == DeclaredNames(RecordLines[j])
                     values == RecordLines[j].values
                     f == messages[j].parsed_fields
                 IN  /\ \A i \in 1..Min(Len(names), Len(values)) :
                           names[i] \in DOMAIN f /\ f[names[i]] = values[i]
                     /\ DOMAIN f \subseteq
                           {names[i] : i \in 1..Len(names)} \cup DiagnosticNames
                     /\ \A i \in (Len(values) + 1)..Len(names) : names[i] \notin DOMAIN f

\* what holds of the field counts: the same, for messages that declare a field
C10_FieldCountMismatchDeclared ==
    pc = "done" =>
        /\ Len(messages) = Len(RecordLines)
        /\ \A j \in 1..Len(RecordLines) :
              (/\ Resolved(RecordLines[j]) /\ RecordLines[j].values # <<>>
               /\ DeclaredNames(RecordLines[j]) # <<>>) =>
                 LET names == DeclaredNames(RecordLines[j])
                     values == RecordLines[j].values
                     f == messages[j].parsed_fields
                 IN  /\ \A i \in 1..Min(Len(names), Len(values)) :
                           names[i] \in DOMAIN f /\ f[names[i]] = values[i]
                     /\ DOMAIN f \subseteq
                           {names[i] : i \in 1..Len(names)} \cup DiagnosticNames
                     /\ \A i \in (Len(values) + 1)..Len(names) : names[i] \notin DOMAIN f

-----------------------------------------------------------------------------
(* SimpleDataParser instances called again and again *)

\* the most parse_data calls in one behaviour
MaxCalls == 3

RECURSIVE ParseLinesFrom(_, _, _, _)
\* the for loop of SimpleDataParser.parse_data from line number i on
ParseLinesFrom(config, lines, i, msgs) ==
    IF i > Len(lines) THEN msgs
    ELSE ParseLinesFrom(config, lines, i + 1, ParseLineStep(config, msgs, lines[i]))

\* a variant that keeps the catalog of the instance's first call
KeepAircraftConfig(old, new) == IF old # None THEN old ELSE new

\* self.aircraft_config = aircraft_config
SetAircraftConfig(old, new) == new

\* SimpleDataParser.parse_data as one call on an instance whose attribute is
\* self_config: the attribute afterwards and the list returned
SimpleDataParser_parse_data(self_config, content, config) ==
    LET own == SetAircraftConfig(self_config, config)
    IN  [aircraft_config |-> own,
         messages |-> ParseLinesFrom(own, TextLines(content), 1, <<>>)]

\* the SimpleDataParser instances, each as __init__ leaves it
Parsers == {"parser_1", "parser_2"}

UnknownAircraftLine == LineOf(TimestampToken(<<55>>), AircraftIdToken(<<57, 57>>), FOO, ThreeValues)

\* the streams and catalogs the calls are made with
CallStreams ==
    {TextBytes(<<GoodLine>>, <<10>>),
     TextBytes(<<ShortLine, UnknownAircraftLine, GoodLine>>, <<13, 10>>)}
CallCatalogs == {TextCatOne, CatEmpty}

DecodersIdle ==
    /\ data_content = <<>> /\ aircraft_config = None /\ messages = <<>>
    /\ offset = 0 /\ line_no = 0 /\ pc = "idle" /\ plan = <<>>

InitCalls ==
    /\ parser_config = [p \in Parsers |-> None]
    /\ calls = <<>>
    /\ DecodersIdle /\ LogIdle /\ GuardIdle /\ ConvertIdle /\ HashIdle /\ WatchIdle /\ FilesIdle

\* some instance is handed some stream and catalog, and returns
ParseDataCall ==
    /\ Len(calls) < MaxCalls
    /\ \E p \in Parsers, content \in CallStreams, config \in CallCatalogs :
          LET r == SimpleDataParser_parse_data(parser_config[p], content, config)
          IN  /\ parser_config' = [parser_config EXCEPT ![p] = r.aircraft_config]
              /\ calls' = Append(calls, [parser |-> p, data_content |-> content,
                                         aircraft_config |-> config,
                                         messages |-> r.messages])
    /\ UNCHANGED <<decoderVars, logVars, guardVars, convertVars, hashVars, watchVars, fsVars>>

NextCalls == ParseDataCall

SpecCalls == InitCalls /\ [][NextCalls]_vars

\* C11: any two calls of parse_data made with the same bytes and the same
\* catalog, on the same instance or on different ones and whatever was decoded
\* in between, returned equal lists of records
C11_TextDecodeIdempotent ==
    \A i, j \in 1..Len(calls) :
        (/\ calls[i].data_content = calls[j].data_content
         /\ calls[i].aircraft_config = calls[j].aircraft_config)
            => calls[i].messages = calls[j].messages

\* one instance decoded the same stream with the same catalog twice, with a
\* call under another catalog in between, and the stream held records
C11_Witness ==
    /\ Len(calls) = 3
    /\ calls[1].parser = calls[2].parser /\ calls[2].parser = calls[3].parser
    /\ calls[1].data_content = calls[3].data_content
    /\ calls[1].aircraft_config = calls[3].aircraft_config
    /\ calls[2].aircraft_config # calls[1].aircraft_config
    /\ calls[2].messages # calls[1].messages
    /\ Len(calls[3].messages) = 2

-----------------------------------------------------------------------------
(* SimpleDataParser._convert_value on its own *)

\* the longest token made of the characters below
MaxTokenLen == 2

\* the characters 0 1 . e E - a and the space
TokenChars == {48, 49, 46, 101, 69, 45, 97, 32}

\* tokens with the value each stands for: integers, floats, the special words
\* in lower and upper case, and tokens that are none of these
ConvertCases ==
    {
     [token |-> <<49>>, expected |-> PyInt(1)],   \* "1"
     [token |-> <<48>>, expected |-> PyInt(0)],   \* "0"
     [token |-> <<52, 50>>, expected |-> PyInt(42)],   \* "42"
     [token |-> <<45, 55>>, expected |-> PyInt(0 - 7)],   \* "-7"
     [token |-> <<43, 53>>, expected |-> PyInt(5)],   \* "+5"
     [token |-> <<49, 95, 48>>, expected |-> PyInt(10)],   \* "1_0"
     [token |-> <<49, 46, 53>>, expected |-> PyFloatDec(15, 0 - 1)],   \* "1.5"
     [token |-> <<50, 101, 49>>, expected |-> PyFloatDec(2, 1)],   \* "2e1"
     [token |-> <<49, 69, 50>>, expected |-> PyFloatDec(1, 2)],   \* "1E2"
     [token |-> <<46, 53>>, expected |-> PyFloatDec(5, 0 - 1)],   \* ".5"
     [token |-> <<53, 46>>, expected |-> PyFloatDec(5, 0)],   \* "5."
     [token |-> <<45, 49, 46, 53, 101, 45, 49>>, expected |-> PyFloatDec(0 - 15, 0 - 2)],   \* "-1.5e-1"
     [token |-> <<116, 114, 117, 101>>, expected |-> PyBool(TRUE)],   \* "true"
     [token |-> <<121, 101, 115>>, expected |-> PyBool(TRUE)],   \* "yes"
     [token |-> <<84, 82, 85, 69>>, expected |-> PyBool(TRUE)],   \* "TRUE"
     [token |-> <<89, 101, 115>>, expected |-> PyBool(TRUE)],   \* "Yes"
     [token |-> <<102, 97, 108, 115, 101>>, expected |-> PyBool(FALSE)],   \* "false"
     [token |-> <<110, 111>>, expected |-> PyBool(FALSE)],   \* "no"
     [token |-> <<78, 111>>, expected |-> PyBool(FALSE)],   \* "No"
     [token |-> <<110, 97, 110>>, expected |-> None],   \* "nan"
     [token |-> <<110, 117, 108, 108>>, expected |-> None],   \* "null"
     [token |-> <<110, 111, 110, 101>>, expected |-> None],   \* "none"
     [token |-> <<78, 97, 78>>, expected |-> None],   \* "NaN"
     [token |-> <<78, 85, 76, 76>>, expected |-> None],   \* "NULL"
     [token |-> <<>>, expected |-> None],   \* ""
     [token |-> <<45>>, expected |-> None],   \* "-"
     [token |-> <<97, 98, 99>>, expected |-> PyStr(<<97, 98, 99>>)],   \* "abc"
     [token |-> <<105, 110, 102>>, expected |-> PyStr(<<105, 110, 102>>)],   \* "inf"
     [token |-> <<73, 110, 102, 105, 110, 105, 116, 121>>, expected |-> PyStr(<<73, 110, 102, 105, 110, 105, 116, 121>>)],   \* "Infinity"
     [token |-> <<49, 46, 53, 46, 50>>, expected |-> PyStr(<<49, 46, 53, 46, 50>>)],   \* "1.5.2"
     [token |-> <<48, 120, 49, 48>>, expected |-> PyStr(<<48, 120, 49, 48>>)],   \* "0x10"
     [token |-> <<49, 101>>, expected |-> PyStr(<<49, 101>>)],   \* "1e"
     [token |-> <<101>>, expected |-> PyStr(<<101>>)],   \* "e"
     [token |-> <<97, 32, 98>>, expected |-> PyStr(<<97, 32, 98>>)],   \* "a b"
     [token |-> <<45, 45, 49>>, expected |-> PyStr(<<45, 45, 49>>)],   \* "--1"
     [token |-> <<49, 32, 48>>, expected |-> PyStr(<<49, 32, 48>>)],   \* "1 0"
     [token |-> <<84, 114, 117, 101, 49>>, expected |-> PyStr(<<84, 114, 117, 101, 49>>)]}   \* "True1"

\* a token comes out of str.split() or of split(",") and strip(): it has no
\* whitespace at either end
ConvertTokens ==
    {c.token : c \in ConvertCases}
    \cup {t \in SeqsUpTo(TokenChars, MaxTokenLen) : Strip(t) = t}

InitConvert ==
    /\ value_str \in ConvertTokens
    /\ converted = None
    /\ data_content = <<>> /\ aircraft_config = None /\ messages = <<>>
    /\ offset = 0 /\ line_no = 0 /\ pc = "convert" /\ plan = <<>>
    /\ CallsIdle /\ LogIdle /\ GuardIdle /\ HashIdle /\ WatchIdle /\ FilesIdle

\* _convert_value is called on the token and returns
ConvertValue ==
    /\ pc = "convert"
    /\ converted' = _convert_value(value_str)
    /\ pc' = "converted"
    /\ UNCHANGED <<data_content, aircraft_config, messages, offset, line_no, plan>>
    /\ UNCHANGED <<value_str, callVars, logVars, guardVars, hashVars, watchVars, fsVars>>

NextConvert == ConvertValue

SpecConvert == InitConvert /\ [][NextConvert]_vars

HasPointOrExponent(t) == Contains(t, 46) \/ Contains(t, 101) \/ Contains(t, 69)

\* the conversion as C12 words it: the special words are true, yes, false,
\* no, nan, null and none as written
ConversionAsWritten(t) ==
    IF ~HasPointOrExponent(t) /\ IsIntLiteral(t) THEN PyInt(IntValue(t))
    ELSE IF HasPointOrExponent(t) /\ IsFloatLiteral(t) THEN FloatValue(t)
    ELSE IF t \in {<<116, 114, 117, 101>>, <<121, 101, 115>>} THEN PyBool(TRUE)
    ELSE IF t \in {<<102, 97, 108, 115, 101>>, <<110, 111>>} THEN PyBool(FALSE)
    ELSE IF t \in {<<110, 97, 110>>, <<110, 117, 108, 108>>, <<110, 111, 110, 101>>, <<>>, <<45>>} THEN None
    ELSE PyStr(t)

\* the same with the special words taken in any letter case
ConversionAnyCase(t) ==
    IF ~HasPointOrExponent(t) /\ IsIntLiteral(t) THEN PyInt(IntValue(t))
    ELSE IF HasPointOrExponent(t) /\ IsFloatLiteral(t) THEN FloatValue(t)
    ELSE IF LowerStr(t) \in {<<116, 114, 117, 101>>, <<121, 101, 115>>} THEN PyBool(TRUE)
    ELSE IF LowerStr(t) \in {<<102, 97, 108, 115, 101>>, <<110, 111>>} THEN PyBool(FALSE)
    ELSE IF LowerStr(t) \in {<<110, 97, 110>>, <<110, 117, 108, 108>>, <<110, 111, 110, 101>>, <<>>, <<45>>} THEN None
    ELSE PyStr(t)

\* C12 as stated: a token without point or exponent marker that parses as an
\* integer becomes that integer, one with a point or exponent marker that
\* parses as a float becomes that float, true/yes become true, false/no false,
\* nan/null/none, the empty token and - absent, and every other token is kept
\* as a string
C12_TokenConversion ==
    pc = "converted" => converted = ConversionAsWritten(value_str)

\* C12: the same, with true/yes, false/no and nan/null/none recognised in
\* any letter case; the tokens of ConvertCases become the values listed there
C12_TokenConversionAnyCase ==
    pc = "converted" =>
        /\ converted = ConversionAnyCase(value_str)
        /\ \A c \in ConvertCases : c.token = value_str => converted = c.expected

\* the token 1 was converted, and became the integer 1
C12_Witness ==
    /\ pc = "converted"
    /\ value_str = <<49>>
    /\ converted = PyInt(1)

-----------------------------------------------------------------------------
(* Schema text, the tolerant pre-pass and xml.etree.ElementTree *)

(* A schema text is held as the sequence of its tags.  A tag is            *)
(*   [k, tag, attrs, semi]                                                 *)
(* with k one of "open" (<tag ...>), "empty" (<tag .../>) and "close"      *)
(* (</tag>), attrs the attributes as written, name |-> the characters      *)
(* between the quotes, and semi the name of the attribute whose closing    *)
(* quote is followed by a semicolon ("" when there is none).  Attribute    *)
(* values hold no quote and no >; text between the tags is left out.       *)
(* A comment (<!-- text -->) is held as a tag of kind "comment" whose one   *)
(* attribute, text, is what stands between the dashes; it holds no quote   *)
(* and no pair of dashes.                                                  *)
OpenTag(tag, attrs) == [k |-> "open", tag |-> tag, attrs |-> attrs, semi |-> ""]
EmptyTag(tag, attrs) == [k |-> "empty", tag |-> tag, attrs |-> attrs, semi |-> ""]
CloseTag(tag) == [k |-> "close", tag |-> tag, attrs |-> <<>>, semi |-> ""]
WithSemicolon(t, name) == [t EXCEPT !.semi = name]
Comment(text) == [k |-> "comment", tag |-> "", attrs |-> [text |-> text], semi |-> ""]

AMP == <<38, 97, 109, 112, 59>>  \* "&amp;"
LT == <<38, 108, 116, 59>>          \* "&lt;"

IsAlNum(c) == (c >= 48 /\ c <= 57) \/ (c >= 65 /\ c <= 90) \/ (c >= 97 /\ c <= 122)

\* the lookahead [a-zA-Z0-9#][a-zA-Z0-9]*; right after position i of v
EntityShapeAfter(v, i) ==
    /\ i + 1 <= Len(v)
    /\ (IsAlNum(v[i + 1]) \/ v[i + 1] = 35)
    /\ \E j \in (i + 2)..Len(v) :
          v[j] = 59 /\ \A n \in (i + 2)..(j - 1) : IsAlNum(v[n])

\* re.sub(r"&(?![a-zA-Z0-9#][a-zA-Z0-9]*;)", "&amp;", ...) within one value
EscapeAmpersands(v) ==
    Concat([i \in 1..Len(v) |->
               IF v[i] = 38 /\ ~EntityShapeAfter(v, i) THEN AMP ELSE <<v[i]>>])

\* m.group(2).replace("<", "&lt;")
EscapeLessThan(v) == Concat([i \in 1..Len(v) |-> IF v[i] = 60 THEN LT ELSE <<v[i]>>])

\* the first substitution on one tag
CleanAmpersands(t) == [t EXCEPT !.attrs = [a \in DOMAIN t.attrs |-> EscapeAmpersands(t.attrs[a])]]

\* the second substitution on one tag: it matches a value that holds a < and
\* whose closing quote is followed by a semicolon, and drops the semicolon
CleanLessThan(t) ==
    IF t.semi # "" /\ Contains(t.attrs[t.semi], 60)
    THEN [t EXCEPT !.attrs[t.semi] = EscapeLessThan(t.attrs[t.semi]), !.semi = ""]
    ELSE t

\* LogParser._clean_xml_content
_clean_xml_content(content) ==
    [i \in 1..Len(content) |-> CleanLessThan(CleanAmpersands(content[i]))]

\* the references expat knows without a DTD, and the character each stands for
PredefinedEntities ==
    {[name |-> <<97, 109, 112>>, char |-> 38], [name |-> <<108, 116>>, char |-> 60],
     [name |-> <<103, 116>>, char |-> 62], [name |-> <<113, 117, 111, 116>>, char |-> 34],
     [name |-> <<97, 112, 111, 115>>, char |-> 39]}

\* the name between the & at position i of v and the next semicolon
ReferenceNameAt(v, i) ==
    LET rest == SubSeq(v, i + 1, Len(v))
    IN  IF Contains(rest, 59) THEN SliceTo(rest, Find(rest, 59)) ELSE rest
IsReferenceAt(v, i) ==
    /\ Contains(SubSeq(v, i + 1, Len(v)), 59)
    /\ \E e \in PredefinedEntities : e.name = ReferenceNameAt(v, i)

\* an attribute value expat accepts: no <, and every & starts a known reference
ValueWellFormed(v) ==
    /\ ~Contains(v, 60)
    /\ \A i \in 1..Len(v) : v[i] = 38 => IsReferenceAt(v, i)

RECURSIVE Unescape(_)
\* the attribute value as the element gives it: references replaced
Unescape(v) ==
    IF v = <<>> THEN <<>>
    ELSE IF v[1] = 38 /\ IsReferenceAt(v, 1)
         THEN LET name == ReferenceNameAt(v, 1)
                  e == CHOOSE x \in PredefinedEntities : x.name = name
              IN  <<e.char>> \o Unescape(SubSeq(v, Len(name) + 3, Len(v)))
         ELSE <<v[1]>> \o Unescape(Tail(v))

\* the number of elements open just before tag i
Depth(content, i) ==
    Cardinality({j \in 1..(i - 1) : content[j].k = "open"})
        - Cardinality({j \in 1..(i - 1) : content[j].k = "close"})

IsElement(t) == t.k \in {"open", "empty"}

\* the start tag a closing tag at i closes
OpenOf(content, i) ==
    LET before == {j \in 1..(i - 1) : /\ content[j].k = "open"
                                      /\ Depth(content, j) = Depth(content, i) - 1}
    IN  CHOOSE j \in before : \A n \in before : n <= j

\* ET.fromstring returns a tree: one root element, tags nested and matched,
\* every tag well formed (a comment may hold any character); otherwise it
\* raises ParseError
WellFormed(content) ==
    /\ content # <<>>
    /\ IsElement(content[1])
    /\ \A i \in 1..Len(content) :
          /\ content[i].semi = ""
          /\ content[i].k # "comment"
                => \A a \in DOMAIN content[i].attrs : ValueWellFormed(content[i].attrs[a])
          /\ i > 1 => Depth(content, i) >= 1
          /\ content[i].k = "close" => content[OpenOf(content, i)].tag = content[i].tag
    /\ Depth(content, Len(content) + 1) = 0

\* the closing tag of the element that starts at i
CloseOf(content, i) ==
    LET after == {j \in (i + 1)..Len(content) :
                     /\ content[j].k = "close"
                     /\ Depth(content, j) = Depth(content, i) + 1}
    IN  CHOOSE j \in after : \A n \in after : j <= n

\* a set of positions as the ascending sequence of its members
Ascending(S) == [n \in 1..Cardinality(S) |-> NthOf(S, n)]

\* root.findall(".//tag"): the elements below the root with that tag
FindAllBelowRoot(content, tag) ==
    Ascending({i \in 2..Len(content) : IsElement(content[i]) /\ content[i].tag = tag})

\* elem.findall(tag): the children of the element at i with that tag
FindAllChildren(content, i, tag) ==
    IF content[i].k = "empty" THEN <<>>
    ELSE Ascending({j \in (i + 1)..(CloseOf(content, i) - 1) :
                       /\ IsElement(content[j]) /\ content[j].tag = tag
                       /\ Depth(content, j) = Depth(content, i) + 1})

HasAttr(t, name) == name \in DOMAIN t.attrs
\* elem.get(name) of an attribute that is there
Attr(t, name) == Unescape(t.attrs[name])

-----------------------------------------------------------------------------
(* log_parser.py: LogParser.  In a catalog built from schema text every     *)
(* name (aircraft, class, message, field, type) is the code-point sequence  *)
(* of the attribute it was read from.                                       *)

UNKNOWN == <<85, 110, 107, 110, 111, 119, 110>>            \* "Unknown"
UNKNOWN_CLASS == <<117, 110, 107, 110, 111, 119, 110>>   \* "unknown"
TELEMETRY == <<116, 101, 108, 101, 109, 101, 116, 114, 121>>      \* "telemetry"

\* the Aircraft dataclass
Aircraft(ac_id, name, airframe, message_definitions) ==
    [ac_id |-> ac_id, name |-> name, airframe |-> airframe,
     message_definitions |-> message_definitions]

\* elem.get(name, default)
Get(t, name, default) == IF HasAttr(t, name) THEN Attr(t, name) ELSE default

\* int(elem.get(name, 0)): the default 0 is already an int; ok is FALSE where
\* int() raises ValueError
IntAttr(t, name) ==
    IF ~HasAttr(t, name) THEN [ok |-> TRUE, n |-> 0]
    ELSE IF IsIntLiteral(Attr(t, name)) THEN [ok |-> TRUE, n |-> IntValue(Attr(t, name))]
    ELSE [ok |-> FALSE, n |-> 0]

\* LogParser._parse_aircraft: None when int() raises
_parse_aircraft(aircraft_elem) ==
    LET ac_id == IntAttr(aircraft_elem, "ac_id")
    IN  IF ~ac_id.ok THEN None
        ELSE Aircraft(ac_id.n, Get(aircraft_elem, "name", UNKNOWN),
                      Get(aircraft_elem, "airframe", <<>>), <<>>)

\* LogParser._parse_field (name and type tag; units and labels are left out)
_parse_field(field_elem) ==
    MessageField(Get(field_elem, "NAME", <<>>), Get(field_elem, "TYPE", <<>>))

\* LogParser._parse_message_definition on the element at i: None when int()
\* raises
_parse_message_definition(content, i) ==
    LET message_id == IntAttr(content[i], "ID")
        field_elems == FindAllChildren(content, i, "field")
    IN  IF ~message_id.ok THEN None
        ELSE MessageDefinition(Get(content[i], "NAME", <<>>), message_id.n,
                               [n \in 1..Len(field_elems) |->
                                   _parse_field(content[field_elems[n]])])

RECURSIVE MessagesFrom(_, _, _, _)
\* the loop over the message children of one class, from child n on
MessagesFrom(content, message_elems, n, msgs) ==
    IF n > Len(message_elems) THEN msgs
    ELSE LET message_def == _parse_message_definition(content, message_elems[n])
         IN  MessagesFrom(content, message_elems, n + 1,
                          IF message_def = None THEN msgs
                          ELSE DictSet(msgs, message_def.name, message_def))

RECURSIVE ClassesFrom(_, _, _, _)
\* the loop of _parse_message_definitions from class n on; int() of a class
\* ID is not guarded, so a bad one ends the loop with ValueError
ClassesFrom(content, class_elems, n, classes) ==
    IF n > Len(class_elems) THEN [raised |-> FALSE, message_classes |-> classes]
    ELSE LET msg_class == content[class_elems[n]]
             class_name == Get(msg_class, "NAME", UNKNOWN_CLASS)
             class_id == IntAttr(msg_class, "ID")
             msgs == MessagesFrom(content, FindAllChildren(content, class_elems[n], "message"),
                                  1, <<>>)
         IN  IF ~class_id.ok THEN [raised |-> TRUE, message_classes |-> classes]
             ELSE ClassesFrom(content, class_elems, n + 1,
                              DictSet(classes, class_name, msgs))

\* LogParser._parse_message_definitions: self.message_classes afterwards
_parse_message_definitions(classes, content) ==
    ClassesFrom(content, FindAllBelowRoot(content, "msg_class"), 1, classes)

IsNotNone(x) == x # None

\* the aircraft_list of parse_log: the aircraft elements _parse_aircraft kept
AircraftList(content) ==
    LET aircraft_elems == FindAllBelowRoot(content, "aircraft")
    IN  SelectSeq([n \in 1..Len(aircraft_elems) |-> _parse_aircraft(content[aircraft_elems[n]])],
                  IsNotNone)

\* self.message_classes.get("telemetry", {})
TelemetryOf(classes) == IF TELEMETRY \in DOMAIN classes THEN classes[TELEMETRY] ELSE <<>>

\* AircraftConfig(aircraft=aircraft_list) after the assignment loop
AircraftConfig(aircraft_list, telemetry) ==
    [aircraft |-> [n \in 1..Len(aircraft_list) |->
                      [aircraft_list[n] EXCEPT !.message_definitions = telemetry]]]

Raised(error, classes) ==
    [raised |-> TRUE, error |-> error, config |-> None, message_classes |-> classes]
Returned(config, classes) ==
    [raised |-> FALSE, error |-> "", config |-> config, message_classes |-> classes]

\* a variant that answers text it cannot parse with an empty catalog
parse_log_Lenient(classes, log_content) ==
    LET cleaned == _clean_xml_content(log_content)
        defs == _parse_message_definitions(classes, cleaned)
    IN  IF ~WellFormed(cleaned) THEN Returned(AircraftConfig(<<>>, <<>>), classes)
        ELSE IF defs.raised
             THEN Raised("Error parsing log file", defs.message_classes)
        ELSE Returned(AircraftConfig(AircraftList(cleaned),
                                     TelemetryOf(defs.message_classes)),
                      defs.message_classes)

\* LogParser.parse_log on an instance whose message_classes is classes: what
\* it returns or raises, and self.message_classes afterwards
parse_log(classes, log_content) ==
    LET cleaned == _clean_xml_content(log_content)
        defs == _parse_message_definitions(classes, cleaned)
    IN  IF ~WellFormed(cleaned) THEN Raised("Invalid XML in log file", classes)
        ELSE IF defs.raised
             THEN Raised("Error parsing log file", defs.message_classes)
        ELSE Returned(AircraftConfig(AircraftList(cleaned),
                                     TelemetryOf(defs.message_classes)),
                      defs.message_classes)

-----------------------------------------------------------------------------
(* Schema texts handed to LogParser.parse_log *)

MaxLogs == 2

\* <configuration> ... </configuration>
Schema(aircraft, classes) ==
    <<OpenTag("configuration", <<>>)>> \o aircraft \o classes
        \o <<CloseTag("configuration")>>
\* <msg_class NAME=".." ID=".."> ... </msg_class>
MsgClassElem(name, id, message_elems) ==
    <<OpenTag("msg_class", [NAME |-> name, ID |-> id])>> \o message_elems
        \o <<CloseTag("msg_class")>>
\* <message NAME=".." ID=".."> ... </message>
MessageElem(name, id, field_elems) ==
    <<OpenTag("message", [NAME |-> name, ID |-> id])>> \o field_elems
        \o <<CloseTag("message")>>
\* <field NAME=".." TYPE=".."/>
FieldElem(name, type) == <<EmptyTag("field", [NAME |-> name, TYPE |-> type])>>

\* <aircraft ac_id="3" name="a"/>
A3 == EmptyTag("aircraft", [ac_id |-> <<51>>, name |-> <<97>>])
\* <aircraft ac_id="5" name="b" airframe="f.xml"/>
A5 == EmptyTag("aircraft", [ac_id |-> <<53>>, name |-> <<98>>, airframe |-> <<102, 46, 120, 109, 108>>])
\* <aircraft ac_id="x" name="c"/>
ABadId == EmptyTag("aircraft", [ac_id |-> <<120>>, name |-> <<99>>])
\* <aircraft name="d"/>
ANoId == EmptyTag("aircraft", [name |-> <<100>>])
\* <aircraft ac_id="3" name="a & b"/>
AAmp == EmptyTag("aircraft", [ac_id |-> <<51>>, name |-> <<97, 32, 38, 32, 98>>])
\* <aircraft ac_id="3" name="a < b"/>
ALt == EmptyTag("aircraft", [ac_id |-> <<51>>, name |-> <<97, 32, 60, 32, 98>>])
\* <aircraft ac_id="3" name="a < b";/>
ALtSemi == WithSemicolon(ALt, "name")
\* <!-- a & b -->
CommentAmp == Comment(<<97, 32, 38, 32, 98>>)

GpsElem == MessageElem(<<71, 80, 83>>, <<56>>, FieldElem(<<108, 97, 116>>, <<102, 108, 111, 97, 116>>) \o FieldElem(<<97, 108, 116>>, <<105, 110, 116, 51, 50>>))
PingElem == MessageElem(<<80, 73, 78, 71>>, <<57>>, <<>>)
\* telemetry with GPS (8) and PING (9)
Tel1 == MsgClassElem(TELEMETRY, <<49>>, GpsElem \o PingElem)
\* telemetry with PING numbered 4
Tel2 == MsgClassElem(TELEMETRY, <<49>>, MessageElem(<<80, 73, 78, 71>>, <<52>>, <<>>))
\* a class that is not telemetry
Ground == MsgClassElem(<<103, 114, 111, 117, 110, 100>>, <<50>>, MessageElem(<<70, 79, 79>>, <<51>>, <<>>))
\* telemetry with two message elements of one name
TelDup == MsgClassElem(TELEMETRY, <<49>>, GpsElem \o MessageElem(<<71, 80, 83>>, <<57>>, <<>>))
\* telemetry with a message whose ID is not a number
TelBadMsg == MsgClassElem(TELEMETRY, <<49>>, MessageElem(<<71, 80, 83>>, <<120>>, <<>>) \o PingElem)
\* a class whose ID is not a number
BadClass == MsgClassElem(<<100, 97, 116, 97, 108, 105, 110, 107>>, <<120>>, MessageElem(<<70, 79, 79>>, <<51>>, <<>>))

AircraftVariants ==
    {<<A3>>, <<A3, A5>>, <<ABadId, A5>>, <<ANoId, A5>>, <<AAmp>>, <<ALt>>, <<ALtSemi>>,
     <<A3, A3>>, <<>>}
ClassVariants ==
    {<<>>, Tel1, Tel2, Ground, Ground \o Tel2, TelDup, TelBadMsg, Tel1 \o BadClass}

\* texts ET.fromstring rejects whatever their attributes are: a missing end
\* tag, a second root, an end tag of another name, nothing at all
BrokenTexts ==
    {<<OpenTag("configuration", <<>>), A3>>,
     Schema(<<A3>>, Tel1) \o <<EmptyTag("configuration", <<>>)>>,
     <<OpenTag("configuration", <<>>), A3, CloseTag("conf")>>,
     <<>>}

SchemaTexts ==
    {Schema(a, Tel1) : a \in AircraftVariants}
        \cup {Schema(<<A3>>, c) : c \in ClassVariants}
        \cup {Schema(<<>>, <<>>), Schema(<<ANoId>>, <<>>), Schema(<<CommentAmp, A3>>, Tel1)}
        \cup BrokenTexts

\* LogFileHandler.__init__: the one LogParser, fresh from its constructor
InitLog ==
    /\ message_classes = <<>>
    /\ log_history = <<>>
    /\ outcome = None
    /\ DecodersIdle /\ CallsIdle /\ GuardIdle /\ ConvertIdle /\ HashIdle /\ WatchIdle /\ FilesIdle

\* parse_log is called on the instance with some schema text and returns a
\* catalog
ParseLogReturns ==
    /\ Len(log_history) < MaxLogs
    /\ \E log_content \in SchemaTexts :
          \E r \in {parse_log(message_classes, log_content)} :
              /\ ~r.raised
              /\ message_classes' = r.message_classes
              /\ log_history' = Append(log_history, log_content)
              /\ outcome' = [raised |-> FALSE, error |-> r.error, config |-> r.config]
    /\ UNCHANGED <<decoderVars, callVars, guardVars, convertVars, hashVars, watchVars, fsVars>>

\* parse_log is called on the instance with some schema text and raises
ParseLogRaises ==
    /\ Len(log_history) < MaxLogs
    /\ \E log_content \in SchemaTexts :
          \E r \in {parse_log(message_classes, log_content)} :
              /\ r.raised
              /\ message_classes' = r.message_classes
              /\ log_history' = Append(log_history, log_content)
              /\ outcome' = [raised |-> TRUE, error |-> r.error, config |-> r.config]
    /\ UNCHANGED <<decoderVars, callVars, guardVars, convertVars, hashVars, watchVars, fsVars>>

NextLog == ParseLogReturns \/ ParseLogRaises

SpecLog == InitLog /\ [][NextLog]_vars

\* the schema text of the last call
LastText == log_history[Len(log_history)]

-----------------------------------------------------------------------------
(* Claims about LogParser *)

\* parse_log has returned a catalog for the last text
Succeeded == outcome # None /\ ~outcome.raised
\* parse_log has raised on the last text
Failed == outcome # None /\ outcome.raised

\* the definitions of the telemetry class a schema text declares, read with
\* nothing known beforehand: the empty map when it declares none
TelemetryDeclared(log_content) ==
    TelemetryOf(_parse_message_definitions(<<>>, _clean_xml_content(log_content)).message_classes)

\* msg_class elements named telemetry in a well-formed text
TelemetryElems(content) ==
    {i \in 2..Len(content) :
        /\ IsElement(content[i]) /\ content[i].tag = "msg_class"
        /\ Get(content[i], "NAME", UNKNOWN_CLASS) = TELEMETRY}

\* C13: after a successful parse_log every aircraft of the returned catalog
\* has as its message map exactly the definitions of the telemetry class that
\* schema text declares, and the empty map when the text declares none
C13_TelemetryMapOfText ==
    Succeeded =>
        \A n \in 1..Len(outcome.config.aircraft) :
            outcome.config.aircraft[n].message_definitions = TelemetryDeclared(LastText)

\* the ids the aircraft elements of a well-formed text declare
DeclaredAircraftIds(content) ==
    {IntAttr(content[i], "ac_id").n :
        i \in {j \in 2..Len(content) :
                  /\ IsElement(content[j]) /\ content[j].tag = "aircraft"
                  /\ HasAttr(content[j], "ac_id") /\ IntAttr(content[j], "ac_id").ok}}

\* message elements directly under a telemetry class of a well-formed text
TelemetryMessageElems(content) ==
    {j \in 2..Len(content) :
        \E i \in TelemetryElems(content) :
            \E n \in DOMAIN FindAllChildren(content, i, "message") :
                FindAllChildren(content, i, "message")[n] = j}

\* C14: for every well-formed schema text parse_log returns a catalog in which
\* the lookup of every declared aircraft id finds an aircraft whose message
\* map has as many entries as the telemetry class has message elements
C14_MessageCountMatchesElements ==
    (outcome # None /\ WellFormed(_clean_xml_content(LastText))) =>
        /\ Succeeded
        /\ \A id \in DeclaredAircraftIds(_clean_xml_content(LastText)) :
              /\ get_aircraft_by_id(outcome.config, id) # None
              /\ Cardinality(DOMAIN get_aircraft_by_id(outcome.config, id).message_definitions)
                    = Cardinality(TelemetryMessageElems(_clean_xml_content(LastText)))

\* the aircraft elements of a well-formed text, in document order
AircraftElems(content) ==
    [n \in 1..Len(FindAllBelowRoot(content, "aircraft")) |->
        content[FindAllBelowRoot(content, "aircraft")[n]]]

\* the catalog holds the aircraft of element t under the id ac_id
KeptAs(config, t, ac_id) ==
    \E n \in 1..Len(config.aircraft) :
        /\ config.aircraft[n].ac_id = ac_id
        /\ config.aircraft[n].name = Get(t, "name", UNKNOWN)
        /\ config.aircraft[n].airframe = Get(t, "airframe", <<>>)

\* the catalog holds an aircraft read from element t, under whatever id
Kept(config, t) ==
    \E n \in 1..Len(config.aircraft) :
        /\ config.aircraft[n].name = Get(t, "name", UNKNOWN)
        /\ config.aircraft[n].airframe = Get(t, "airframe", <<>>)

\* C15: an aircraft element whose id attribute is present but is not an
\* integer is kept in the returned catalog, with aircraft id 0
C15_UnparseableIdKeptAsZero ==
    Succeeded =>
        \A n \in DOMAIN AircraftElems(_clean_xml_content(LastText)) :
            LET t == AircraftElems(_clean_xml_content(LastText))[n]
            IN  (HasAttr(t, "ac_id") /\ ~IntAttr(t, "ac_id").ok) => KeptAs(outcome.config, t, 0)

\* C16: an aircraft element with no id attribute is not in the returned
\* catalog, and parse_log still returns every other aircraft element of the
\* text
C16_MissingIdSkipped ==
    (outcome # None /\ WellFormed(_clean_xml_content(LastText))
        /\ \E n \in DOMAIN AircraftElems(_clean_xml_content(LastText)) :
              ~HasAttr(AircraftElems(_clean_xml_content(LastText))[n], "ac_id")) =>
        /\ Succeeded
        /\ \A n \in DOMAIN AircraftElems(_clean_xml_content(LastText)) :
              LET t == AircraftElems(_clean_xml_content(LastText))[n]
              IN  IF HasAttr(t, "ac_id")
                  THEN IntAttr(t, "ac_id").ok => KeptAs(outcome.config, t, IntAttr(t, "ac_id").n)
                  ELSE ~Kept(outcome.config, t)

\* the text of the last call declares a message class named telemetry
DeclaresTelemetry(content) == TelemetryElems(content) # {}

\* C17: parse_log fails for a missing telemetry class exactly when the schema
\* text declares no message class named telemetry and holds at least one
\* aircraft element, and returns no catalog then.  parse_log has no error of
\* that name, so the formula states the half any error would satisfy: such a
\* text makes parse_log fail and return no catalog
C17_MissingTelemetryClassFails ==
    (/\ outcome # None /\ WellFormed(_clean_xml_content(LastText))
     /\ ~DeclaresTelemetry(_clean_xml_content(LastText))
     /\ AircraftElems(_clean_xml_content(LastText)) # <<>>) =>
        (Failed /\ outcome.config = None)

\* the text of the last call is not markup even after the pre-pass
Unparseable == ~WellFormed(_clean_xml_content(LastText))

\* C18: when the schema text cannot be parsed as markup even after the
\* tolerant pre-pass, parse_log fails with an error and returns no catalog,
\* however much of the text could be read and whatever the instance parsed
\* before
C18_MalformedTextFails ==
    (outcome # None /\ Unparseable) =>
        (Failed /\ outcome.config = None /\ outcome.error = "Invalid XML in log file")

\* a text with a bare < in an attribute, which the pre-pass leaves alone, has
\* been refused by an instance that had parsed a schema before
C18_Witness ==
    /\ Len(log_history) = 2
    /\ log_history[1] = Schema(<<A3>>, Tel1)
    /\ LastText = Schema(<<ALt>>, Tel1)
    /\ LastText = _clean_xml_content(LastText)
    /\ Failed /\ outcome.config = None

\* what a LogParser fresh from its constructor does with the text of the last
\* call
FreshOutcome == parse_log(<<>>, LastText)

\* C19: what parse_log returns for a schema text depends on that text only:
\* an instance that parsed other texts before returns the catalog, or raises
\* the error, that a fresh instance does, and no message class of an earlier
\* text shows in a later catalog
C19_CatalogDependsOnTextOnly ==
    outcome # None =>
        /\ outcome.raised = FreshOutcome.raised
        /\ outcome.config = FreshOutcome.config


\* C26: _clean_xml_content leaves every well-formed schema text as it is:
\* for each text parse_log was given that ET.fromstring accepts as written,
\* the cleaned text equals the text
C26_CleanIsIdentityOnWellFormed ==
    \A i \in 1..Len(log_history) :
        WellFormed(log_history[i]) => _clean_xml_content(log_history[i]) = log_history[i]

-----------------------------------------------------------------------------
(* parser_version.py: ParserVersionManager, with the callers in             *)
(* file_watcher.py that write what it reads.                                *)
(*   parser_hash   what get_current_parser_hash returns for the parser and  *)
(*                 model sources as they are now                            *)
(*   version_file  parser_version.json: None while it does not exist        *)
(*   sessions      the session directories under the output directory, by   *)
(*                 name: their summary.json and whether processed_logs      *)
(*                 holds the session's log and data files                   *)
(*   reprocess     what the last call of get_sessions_to_reprocess returned *)
(*                 (None once its caller has moved on).  iterdir yields the *)
(*                 directories in no particular order, so the names are     *)
(*                 kept as a set                                            *)

MaxVersions == 3

SessionNames == {"s1", "s2"}

\* the default "" of .get("version_hash", "")
NO_HASH == 0

\* a file holding JSON, and a file json.load cannot read
Json(v) == [t |-> "json", v |-> v]
Garbage == [t |-> "garbage", v |-> 0]

\* a returned list of session names, in whatever order
Names(S) == [t |-> "names", v |-> S]

\* what get_parser_version_info puts under the key the guard reads
VersionInfo(current_hash) == [version_hash |-> current_hash]

\* ParserVersionManager.load_stored_version
load_stored_version(file) ==
    IF file = None THEN <<>>
    ELSE IF file.t = "json" THEN file.v
    ELSE <<>>

\* d.get("version_hash", "")
VersionHashOf(d) == IF "version_hash" \in DOMAIN d THEN d.version_hash ELSE NO_HASH

\* ParserVersionManager.has_parser_changed
has_parser_changed(file, current_hash) ==
    current_hash # VersionHashOf(load_stored_version(file))

\* summary.get("parser_version", {}).get("version_hash", "")
SessionParserHash(summary) ==
    VersionHashOf(IF "parser_version" \in DOMAIN summary THEN summary.parser_version ELSE <<>>)

\* a JSON object as json.load gives it (a dict), as against a list, a string
\* or null
IsDict(x) == "t" \notin DOMAIN x

\* reading the summary and its fingerprint raises: open or json.load fails, or
\* .get is called on what is not a dict (AttributeError)
SummaryRaises(summary) ==
    \/ summary.t # "json"
    \/ ~IsDict(summary.v)
    \/ ("parser_version" \in DOMAIN summary.v /\ ~IsDict(summary.v.parser_version))

\* a variant of the loop body that passes over a summary it cannot read
NeedsReprocessReadable(session, current_hash) ==
    /\ session.summary # None
    /\ ~SummaryRaises(session.summary)
    /\ SessionParserHash(session.summary.v) # current_hash

\* a variant of the loop body that lists every session it can read
NeedsReprocessAnyHash(session, current_hash) ==
    /\ session.summary # None
    /\ \/ SummaryRaises(session.summary)
       \/ SessionParserHash(session.summary.v) # current_hash
       \/ SessionParserHash(session.summary.v) = current_hash

\* the body of the loop over the session directories: does this one go on the
\* list (a directory without summary.json is passed over; an exception puts
\* the session on the list)
NeedsReprocess(session, current_hash) ==
    /\ session.summary # None
    /\ \/ SummaryRaises(session.summary)
       \/ SessionParserHash(session.summary.v) # current_hash

\* ParserVersionManager.get_sessions_to_reprocess
get_sessions_to_reprocess(file, current_hash, dirs) ==
    IF ~has_parser_changed(file, current_hash) THEN {}
    ELSE {s \in DOMAIN dirs : NeedsReprocess(dirs[s], current_hash)}

\* the session directory process_log_pair leaves behind when it gets to the
\* end: summary.json carries the parser version read at the start
Processed(current_hash, archived) ==
    [summary |-> Json([parser_version |-> VersionInfo(current_hash)]),
     archived |-> archived]

\* the watcher starts on an empty output directory, nothing saved yet
InitGuard ==
    /\ parser_hash = 1
    /\ version_file = None
    /\ sessions = <<>>
    /\ reprocess = None
    /\ DecodersIdle /\ CallsIdle /\ LogIdle /\ ConvertIdle /\ HashIdle /\ WatchIdle /\ FilesIdle

\* process_log_pair on a pair that arrived: the session directory is written;
\* the copy to processed_logs may fail, which is only warned about.  (When
\* the parse raises nothing is written and the state stays as it is.)
ProcessLogPair ==
    /\ \E s \in SessionNames, copied \in BOOLEAN :
          sessions' = DictSet(sessions, s,
                              Processed(parser_hash,
                                        copied \/ (s \in DOMAIN sessions /\ sessions[s].archived)))
    /\ reprocess' = None
    /\ UNCHANGED <<version_file, parser_hash>>
    /\ UNCHANGED <<decoderVars, callVars, logVars, convertVars, hashVars, watchVars, fsVars>>

\* a parser or model source file is edited
ParserSourceChanges ==
    /\ parser_hash < MaxVersions
    /\ parser_hash' = parser_hash + 1
    /\ reprocess' = None
    /\ UNCHANGED <<version_file, sessions>>
    /\ UNCHANGED <<decoderVars, callVars, logVars, convertVars, hashVars, watchVars, fsVars>>

\* FileWatcher.check_and_reprocess_if_needed when the parser has changed (it
\* returns at once when it has not): every listed session whose archive is
\* there is handed to process_log_pair, which may or may not get to the end,
\* and the current version is saved
CheckAndReprocess ==
    /\ has_parser_changed(version_file, parser_hash)
    /\ LET listed == get_sessions_to_reprocess(version_file, parser_hash, sessions)
           attempted == {s \in listed : sessions[s].archived}
       IN  \E done \in SUBSET attempted :
              sessions' = [s \in DOMAIN sessions |->
                              IF s \in done THEN Processed(parser_hash, TRUE)
                              ELSE sessions[s]]
    /\ version_file' = Json(VersionInfo(parser_hash))
    /\ reprocess' = None
    /\ UNCHANGED parser_hash
    /\ UNCHANGED <<decoderVars, callVars, logVars, convertVars, hashVars, watchVars, fsVars>>

\* get_sessions_to_reprocess is called and returns
GetSessionsToReprocess ==
    /\ reprocess' = Names(get_sessions_to_reprocess(version_file, parser_hash, sessions))
    /\ UNCHANGED <<version_file, sessions, parser_hash>>
    /\ UNCHANGED <<decoderVars, callVars, logVars, convertVars, hashVars, watchVars, fsVars>>

NextGuard ==
    \/ ProcessLogPair
    \/ ParserSourceChanges
    \/ CheckAndReprocess
    \/ GetSessionsToReprocess

SpecGuard == InitGuard /\ [][NextGuard]_vars

\* the sessions whose stored fingerprint differs from the current one
StaleSessions ==
    {s \in DOMAIN sessions :
        /\ sessions[s].summary # None /\ sessions[s].summary.t = "json"
        /\ SessionParserHash(sessions[s].summary.v) # parser_hash}

\* C20: get_sessions_to_reprocess returns the identifier of every session
\* whose stored fingerprint differs from the current fingerprint; with one
\* such session it returns that one identifier
C20_EveryStaleSessionReturned ==
    reprocess # None =>
        /\ StaleSessions \subseteq reprocess.v
        /\ \A s \in SessionNames : StaleSessions = {s} => reprocess.v = {s}

\* the stored fingerprint of a session equals the current one
Fresh(s) ==
    /\ sessions[s].summary # None
    /\ ~SummaryRaises(sessions[s].summary)
    /\ SessionParserHash(sessions[s].summary.v) = parser_hash

\* C21: get_sessions_to_reprocess never returns a session whose stored
\* fingerprint equals the current fingerprint, never returns a name that is
\* not a session, and returns nothing when there are no sessions
C21_OnlyStaleSessionsReturned ==
    reprocess # None =>
        /\ \A s \in reprocess.v : s \in DOMAIN sessions /\ ~Fresh(s)
        /\ sessions = <<>> => reprocess.v = {}

\* a scan has returned one session and left out another, whose fingerprint
\* is the current one
C21_Witness ==
    /\ reprocess # None
    /\ \E s \in reprocess.v, f \in DOMAIN sessions : Fresh(f) /\ f \notin reprocess.v

-----------------------------------------------------------------------------
(* The same operations over an output directory whose summaries are not all *)
(* of process_log_pair's making: left by an older release, cut short, or    *)
(* edited by hand                                                           *)

\* a version_hash that is not a string of hexadecimal digits (null, a number)
NOT_A_HASH == -1

\* summary.json contents process_log_pair does not write: not JSON, a list, an
\* object without parser_version, parser_version a string, parser_version
\* without version_hash, version_hash of another type
ForeignSummaries ==
    {Garbage, Json(PyList(<<>>)), Json(<<>>), Json([parser_version |-> PyStr(<<>>)]),
     Json([parser_version |-> <<>>]),
     Json([parser_version |-> [version_hash |-> NOT_A_HASH]])}

\* the summary.json of some session is replaced from outside
SummaryReplaced ==
    /\ \E s \in DOMAIN sessions, summary \in ForeignSummaries :
          sessions' = [sessions EXCEPT ![s].summary = summary]
    /\ reprocess' = None
    /\ UNCHANGED <<version_file, parser_hash>>
    /\ UNCHANGED <<decoderVars, callVars, logVars, convertVars, hashVars, watchVars, fsVars>>

NextGuardEnv ==
    \/ ProcessLogPair
    \/ ParserSourceChanges
    \/ CheckAndReprocess
    \/ GetSessionsToReprocess
    \/ SummaryReplaced

SpecGuardEnv == InitGuard /\ [][NextGuardEnv]_vars

\* the stored fingerprint of session s cannot be had: the summary is not
\* readable JSON, or holds no fingerprint of the expected shape
Unreadable(s) ==
    /\ sessions[s].summary # None
    /\ \/ SummaryRaises(sessions[s].summary)
       \/ "parser_version" \notin DOMAIN sessions[s].summary.v
       \/ "version_hash" \notin DOMAIN sessions[s].summary.v.parser_version
       \/ sessions[s].summary.v.parser_version.version_hash = NOT_A_HASH

\* C22: whenever get_sessions_to_reprocess scans the sessions (the stored
\* guard version differs from the current fingerprint), every session whose
\* summary cannot be read or parsed, or whose stored fingerprint is missing
\* or of the wrong shape, is in the result
C22_UnreadableTreatedAsStale ==
    (reprocess # None /\ has_parser_changed(version_file, parser_hash)) =>
        \A s \in DOMAIN sessions : Unreadable(s) => s \in reprocess.v

\* a scan has returned a session whose summary is not JSON next to one whose
\* fingerprint is of the wrong shape, and left out a session with the current
\* fingerprint
C22_Witness ==
    /\ reprocess # None /\ has_parser_changed(version_file, parser_hash)
    /\ \E s \in reprocess.v : sessions[s].summary = Garbage
    /\ \E s \in reprocess.v :
          sessions[s].summary \in ForeignSummaries \ {Garbage}

\* what get_sessions_to_reprocess would return if it always scanned
FullScan == {s \in DOMAIN sessions : NeedsReprocess(sessions[s], parser_hash)}

\* C23: in every state the watcher's operations and parser-source changes
\* lead to, whenever has_parser_changed() is false no session holds a stored
\* fingerprint different from the current one, so the empty result of the
\* early return is the result of a full scan
C23_EarlyReturnIsOptimization ==
    ~has_parser_changed(version_file, parser_hash) => FullScan = {}

-----------------------------------------------------------------------------
(* parser_version.py: get_current_parser_hash over the source directories.  *)
(* Path.glob yields the files of a directory in the order the file system   *)
(* lists them, which nothing fixes: each call reads them in some order.     *)

MaxHashCalls == 2

INIT_PY == "__init__.py"

\* the lower-case hexadecimal digit of n in 0..15, as a code point
HexDigit(n) == IF n < 10 THEN 48 + n ELSE 87 + n

IsHexDigit(c) == (c >= 48 /\ c <= 57) \/ (c >= 97 /\ c <= 102)

\* hashlib.sha256(text).hexdigest(): 64 hexadecimal digits.  SHA-256 itself
\* is not computed; it is taken to be free of collisions, and stood in for by
\* a digest that tells apart any two texts of the model (their characters
\* and their length) within its first 16 digits
Sha256HexDigest(text) ==
    [i \in 1..64 |->
        HexDigit(IF i <= Len(text) /\ i < 16 THEN text[i] % 16
                 ELSE IF i = 16 THEN Len(text) % 16
                 ELSE 0)]

\* the orders in which glob("*.py") may yield the files of a directory
GlobOrders(dir) ==
    {o \in [1..Cardinality(DOMAIN dir) -> DOMAIN dir] :
        \A i, j \in DOMAIN o : o[i] = o[j] => i = j}

\* the loop over one directory: the text of every file but __init__.py, in
\* the order glob yields them
ReadAll(dir, order) ==
    Concat([n \in 1..Len(order) |-> IF order[n] = INIT_PY THEN <<>> ELSE dir[order[n]]])

\* ParserVersionManager.get_current_parser_hash when glob yields the parser
\* files in parsers_order and the model files in models_order
get_current_parser_hash(files, parsers_order, models_order) ==
    SubSeq(Sha256HexDigest(ReadAll(files.parsers, parsers_order)
                              \o ReadAll(files.models, models_order)),
           1, 16)

\* texts of source files: "a", "b", "ab"
SourceTexts == {<<97>>, <<98>>, <<97, 98>>}

\* the source tree: two parser modules and a model module, with the package
\* files that are left out of the hash
InitHash ==
    /\ source_files =
          [parsers |-> (INIT_PY :> <<98>>) @@ ("p1.py" :> <<97>>) @@ ("p2.py" :> <<98>>),
           models |-> (INIT_PY :> <<>>) @@ ("m.py" :> <<97>>)]
    /\ hash_calls = <<>>
    /\ DecodersIdle /\ CallsIdle /\ LogIdle /\ GuardIdle /\ ConvertIdle /\ WatchIdle /\ FilesIdle

\* get_current_parser_hash is called and returns
GetCurrentParserHash ==
    /\ Len(hash_calls) < MaxHashCalls
    /\ \E parsers_order \in GlobOrders(source_files.parsers),
          models_order \in GlobOrders(source_files.models) :
          hash_calls' = Append(hash_calls,
                               [files |-> source_files,
                                hash |-> get_current_parser_hash(source_files, parsers_order,
                                                                 models_order)])
    /\ UNCHANGED source_files
    /\ UNCHANGED <<decoderVars, callVars, logVars, guardVars, convertVars, watchVars, fsVars>>

\* a parser or a model module is edited
SourceFileEdited ==
    /\ \E text \in SourceTexts :
          \/ /\ text # source_files.parsers["p2.py"]
             /\ source_files' = [source_files EXCEPT !.parsers["p2.py"] = text]
          \/ /\ text # source_files.models["m.py"] /\ Len(text) = 1
             /\ source_files' = [source_files EXCEPT !.models["m.py"] = text]
    /\ UNCHANGED hash_calls
    /\ UNCHANGED <<decoderVars, callVars, logVars, guardVars, convertVars, watchVars, fsVars>>

NextHash == GetCurrentParserHash \/ SourceFileEdited

SpecHash == InitHash /\ [][NextHash]_vars

\* C24: get_current_parser_hash returns the same value on every call for
\* which the contents of the parser and model files are the same, whatever
\* the order in which the directories yield the files, and the value is
\* always 16 hexadecimal digits
C24_FingerprintDeterministic ==
    /\ \A i, j \in DOMAIN hash_calls :
          hash_calls[i].files = hash_calls[j].files => hash_calls[i].hash = hash_calls[j].hash
    /\ \A i \in DOMAIN hash_calls :
          /\ Len(hash_calls[i].hash) = 16
          /\ \A n \in 1..16 : IsHexDigit(hash_calls[i].hash[n])

-----------------------------------------------------------------------------
(* file_watcher.py and main.py: the threads that call process_log_pair.     *)
(*   observer  the watchdog thread that runs on_created / on_moved, one     *)
(*             event at a time                                              *)
(*   startup   the thread main.py starts for FileWatcher.start(): after     *)
(*             observer.start() it runs check_and_reprocess_if_needed and   *)
(*             then _process_existing_files                                 *)
(*   api       a POST /reprocess-sessions request, which runs               *)
(*             check_and_reprocess_if_needed                                *)
(* No lock is taken anywhere; self.processing holds file paths and is only  *)
(* looked at by process_file.                                               *)

Threads == {"observer", "startup", "api"}
Checkers == {"startup", "api"}

\* in_flight of a thread that is not inside process_log_pair
NO_SESSION == ""

\* where a thread stands before it calls check_and_reprocess_if_needed, and
\* where it goes when the call returns
BeforeCheck(t) == IF t = "startup" THEN "start" ELSE "idle"
AfterCheck(t) == IF t = "startup" THEN "existing" ELSE "idle"

\* the pc of a thread inside process_log_pair, by the loop that called it
InPair == {"pair_observer", "pair_reprocess", "pair_existing"}
ReturnTo(p) ==
    IF p = "pair_observer" THEN "idle"
    ELSE IF p = "pair_reprocess" THEN "reprocess"
    ELSE "existing_loop"

\* output directories left by earlier runs: each session absent, written by
\* the parser before the last edit (archived or not), or by the current one
OutputDirs ==
    UNION {[S -> {Processed(1, TRUE), Processed(1, FALSE), Processed(2, TRUE)}] :
              S \in SUBSET SessionNames}

\* the server starts: observer.start() has returned in the startup thread
InitWatch ==
    /\ parser_hash = 2
    /\ version_file \in {Json(VersionInfo(1)), Json(VersionInfo(2))}
    /\ sessions \in OutputDirs
    /\ reprocess = None
    /\ thread_pc = [t \in Threads |-> BeforeCheck(t)]
    /\ in_flight = [t \in Threads |-> NO_SESSION]
    /\ todo = [t \in Threads |-> {}]
    /\ input_pairs \in SUBSET SessionNames
    /\ DecodersIdle /\ CallsIdle /\ LogIdle /\ ConvertIdle /\ HashIdle /\ FilesIdle

\* check_and_reprocess_if_needed up to its loop: it returns when the parser
\* has not changed, else it lists the sessions to reprocess
CheckBegins ==
    /\ \E t \in Checkers :
          /\ thread_pc[t] = BeforeCheck(t)
          /\ IF ~has_parser_changed(version_file, parser_hash)
             THEN /\ thread_pc' = [thread_pc EXCEPT ![t] = AfterCheck(t)]
                  /\ UNCHANGED todo
             ELSE /\ thread_pc' = [thread_pc EXCEPT ![t] = "reprocess"]
                  /\ todo' = [todo EXCEPT ![t] =
                                 get_sessions_to_reprocess(version_file, parser_hash, sessions)]
    /\ UNCHANGED <<in_flight, input_pairs, guardVars>>
    /\ UNCHANGED <<decoderVars, callVars, logVars, convertVars, hashVars, fsVars>>

\* the loop comes to a session whose archived files are missing: continue
ReprocessSkips ==
    /\ \E t \in Checkers : \E s \in todo[t] :
          /\ thread_pc[t] = "reprocess"
          /\ ~sessions[s].archived
          /\ todo' = [todo EXCEPT ![t] = @ \ {s}]
    /\ UNCHANGED <<thread_pc, in_flight, input_pairs, guardVars>>
    /\ UNCHANGED <<decoderVars, callVars, logVars, convertVars, hashVars, fsVars>>

\* the loop comes to a session whose archived files are there and calls
\* process_log_pair on them
ReprocessBegins ==
    /\ \E t \in Checkers : \E s \in todo[t] :
          /\ thread_pc[t] = "reprocess"
          /\ sessions[s].archived
          /\ todo' = [todo EXCEPT ![t] = @ \ {s}]
          /\ in_flight' = [in_flight EXCEPT ![t] = s]
          /\ thread_pc' = [thread_pc EXCEPT ![t] = "pair_reprocess"]
    /\ UNCHANGED <<input_pairs, guardVars>>
    /\ UNCHANGED <<decoderVars, callVars, logVars, convertVars, hashVars, fsVars>>

\* a variant that saves as soon as the sessions are listed
ReadyToSaveAtOnce(t) == thread_pc[t] = "reprocess"

\* the loop of check_and_reprocess_if_needed is over (or the list was empty)
ReadyToSave(t) == thread_pc[t] = "reprocess" /\ todo[t] = {}

\* save_current_version at the end of check_and_reprocess_if_needed
SaveVersion ==
    /\ \E t \in Checkers :
          /\ ReadyToSave(t)
          /\ version_file' = Json(VersionInfo(parser_hash))
          /\ thread_pc' = [thread_pc EXCEPT ![t] = "saved"]
    /\ UNCHANGED <<in_flight, todo, input_pairs, sessions, parser_hash, reprocess>>
    /\ UNCHANGED <<decoderVars, callVars, logVars, convertVars, hashVars, fsVars>>

\* check_and_reprocess_if_needed returns after the save
CheckReturns ==
    /\ \E t \in Checkers :
          /\ thread_pc[t] = "saved"
          /\ thread_pc' = [thread_pc EXCEPT ![t] = AfterCheck(t)]
    /\ UNCHANGED <<in_flight, todo, input_pairs, guardVars>>
    /\ UNCHANGED <<decoderVars, callVars, logVars, convertVars, hashVars, fsVars>>

\* _process_existing_files globs the input directory and groups the pairs
ExistingListed ==
    /\ thread_pc["startup"] = "existing"
    /\ todo' = [todo EXCEPT !["startup"] = input_pairs]
    /\ thread_pc' = [thread_pc EXCEPT !["startup"] = "existing_loop"]
    /\ UNCHANGED <<in_flight, input_pairs, guardVars>>
    /\ UNCHANGED <<decoderVars, callVars, logVars, convertVars, hashVars, fsVars>>

\* _process_existing_files calls process_log_pair on the next pair it listed
ExistingBegins ==
    /\ thread_pc["startup"] = "existing_loop"
    /\ \E s \in todo["startup"] :
          /\ todo' = [todo EXCEPT !["startup"] = @ \ {s}]
          /\ in_flight' = [in_flight EXCEPT !["startup"] = s]
    /\ thread_pc' = [thread_pc EXCEPT !["startup"] = "pair_existing"]
    /\ UNCHANGED <<input_pairs, guardVars>>
    /\ UNCHANGED <<decoderVars, callVars, logVars, convertVars, hashVars, fsVars>>

\* FileWatcher.start returns
StartReturns ==
    /\ thread_pc["startup"] = "existing_loop"
    /\ todo["startup"] = {}
    /\ thread_pc' = [thread_pc EXCEPT !["startup"] = "done"]
    /\ UNCHANGED <<in_flight, todo, input_pairs, guardVars>>
    /\ UNCHANGED <<decoderVars, callVars, logVars, convertVars, hashVars, fsVars>>

\* a new pair is put into the input directory and process_file, run by the
\* observer thread for its event, finds both files and calls process_log_pair
ObserverBegins ==
    /\ thread_pc["observer"] = "idle"
    /\ \E s \in SessionNames \ input_pairs :
          /\ input_pairs' = input_pairs \cup {s}
          /\ in_flight' = [in_flight EXCEPT !["observer"] = s]
    /\ thread_pc' = [thread_pc EXCEPT !["observer"] = "pair_observer"]
    /\ UNCHANGED <<todo, guardVars>>
    /\ UNCHANGED <<decoderVars, callVars, logVars, convertVars, hashVars, fsVars>>

\* process_log_pair comes to its end in some thread: either it wrote the
\* session (and moved a pair that lay in the input directory), or an
\* exception was caught and printed
PairEnds ==
    /\ \E t \in Threads, ok \in BOOLEAN :
          /\ thread_pc[t] \in InPair
          /\ sessions' = IF ok THEN DictSet(sessions, in_flight[t], Processed(parser_hash, TRUE))
                         ELSE sessions
          /\ input_pairs' = IF ok /\ thread_pc[t] # "pair_reprocess"
                            THEN input_pairs \ {in_flight[t]}
                            ELSE input_pairs
          /\ in_flight' = [in_flight EXCEPT ![t] = NO_SESSION]
          /\ thread_pc' = [thread_pc EXCEPT ![t] = ReturnTo(thread_pc[t])]
    /\ UNCHANGED <<todo, version_file, parser_hash, reprocess>>
    /\ UNCHANGED <<decoderVars, callVars, logVars, convertVars, hashVars, fsVars>>

NextWatch ==
    \/ CheckBegins
    \/ ReprocessSkips
    \/ ReprocessBegins
    \/ SaveVersion
    \/ CheckReturns
    \/ ExistingListed
    \/ ExistingBegins
    \/ StartReturns
    \/ ObserverBegins
    \/ PairEnds

SpecWatch == InitWatch /\ [][NextWatch]_vars

\* C25: at any time at most one process_log_pair is in flight for a session
\* name, across the observer's callbacks, the startup thread and the
\* reprocess request
C25_SingleWriterPerSession ==
    \A t1, t2 \in Threads :
        (t1 # t2 /\ in_flight[t1] # NO_SESSION) => in_flight[t1] # in_flight[t2]

\* thread t writes parser_version.json in this step
Saves(t) == thread_pc[t] # "saved" /\ thread_pc'[t] = "saved"

\* C28: in check_and_reprocess_if_needed the current fingerprint is saved
\* only after process_log_pair has been attempted for every listed session
\* whose archived files exist (a session leaves the list only by being
\* attempted, or by being skipped for want of its archive, and the save comes
\* when the list is empty), never before or between the attempts, and a run
\* that finds has_parser_changed() false writes nothing
C28_SavedOnlyAfterAttempts ==
    [][/\ version_file' # version_file =>
             \E t \in Checkers : Saves(t)
       /\ \A t \in Checkers :
             /\ Saves(t) =>
                   /\ thread_pc[t] = "reprocess" /\ todo[t] = {} /\ in_flight[t] = NO_SESSION
                   /\ version_file' = Json(VersionInfo(parser_hash))
             /\ (thread_pc[t] = "reprocess" /\ todo'[t] # todo[t]) =>
                   \E s \in todo[t] :
                       /\ todo'[t] = todo[t] \ {s}
                       /\ IF sessions[s].archived
                          THEN in_flight'[t] = s /\ thread_pc'[t] = "pair_reprocess"
                          ELSE thread_pc'[t] = "reprocess"
             /\ (thread_pc[t] = BeforeCheck(t)
                    /\ ~has_parser_changed(version_file, parser_hash)
                    /\ thread_pc'[t] # thread_pc[t]) =>
                   (thread_pc'[t] = AfterCheck(t) /\ version_file' = version_file)]_vars

\* a run has attempted one listed session, skipped another whose archive is
\* missing, and now saves the fingerprint, which replaces an older one
C28_Witness ==
    /\ \E t \in Checkers : thread_pc[t] = "saved"
    /\ \A t \in Threads : in_flight[t] = NO_SESSION
    /\ version_file = Json(VersionInfo(parser_hash))
    /\ \E s \in DOMAIN sessions : Fresh(s) /\ sessions[s].archived
    /\ \E s \in DOMAIN sessions : ~Fresh(s) /\ ~sessions[s].archived


(***************************************************************************)
(* LogFileHandler.process_log_pair and the directories it works on         *)
(*                                                                         *)
(* A path is its parent directory, as the sequence of its components, and  *)
(* the stem and suffix of its name; the disk maps the paths of the files   *)
(* that exist to their contents.  Directories are not kept: __init__ makes *)
(* output/processed_logs, the mkdir calls of process_log_pair make the     *)
(* session directories, and a directory without files is passed over by    *)
(* every reader.  There are no symbolic links, so Path.resolve() leaves a  *)
(* path of the model as it is.                                             *)
(***************************************************************************)

\* FileWatcher.__init__: input_dir = "input", output_dir = "output"
input_dir == <<"input">>
output_dir == <<"output">>
\* self.processed_logs_dir = self.output_dir / "processed_logs"
processed_logs_dir == Append(output_dir, "processed_logs")

PathOf(parent, stem, suffix) == [parent |-> parent, stem |-> stem, suffix |-> suffix]
LogPath(parent, stem) == PathOf(parent, stem, ".log")
DataPath(parent, stem) == PathOf(parent, stem, ".data")

WriteFile(fs, path, content) == DictSet(fs, path, content)
RemoveFile(fs, path) == [q \in DOMAIN fs \ {path} |-> fs[q]]
\* shutil.copy2(source, dest)
copy2(fs, source, dest) == WriteFile(fs, dest, fs[source])
\* shutil.move(source, dest)
move(fs, source, dest) == RemoveFile(WriteFile(fs, dest, fs[source]), source)

\* how a copy or a move of the two originals can end: both done, the first
\* call raises, the second call raises
Outcomes == {"ok", "log_fails", "data_fails"}

\* the try block that copies the originals to processed_logs/<session>; an
\* exception is answered with a warning
CopyToProcessedLogs(fs, log_file, data_file, outcome_) ==
    LET processed_session_dir == Append(processed_logs_dir, log_file.stem)
        dest_log == PathOf(processed_session_dir, log_file.stem, log_file.suffix)
        dest_data == PathOf(processed_session_dir, data_file.stem, data_file.suffix)
        fs1 == IF log_file # dest_log THEN copy2(fs, log_file, dest_log) ELSE fs
        fs2 == IF data_file # dest_data THEN copy2(fs1, data_file, dest_data) ELSE fs1
    IN  IF outcome_ = "log_fails" /\ log_file # dest_log THEN fs
        ELSE IF outcome_ = "data_fails" /\ data_file # dest_data THEN fs1
        ELSE fs2

\* a variant that moves a file wherever it lies
InAnyDir(path) == TRUE
\* str(log_file.parent) == str(self.input_dir)
InInputDir(path) == path.parent = input_dir

\* the try block that moves the originals into the session directory
MoveToSessionDir(fs, log_file, data_file, outcome_) ==
    LET session_dir == Append(output_dir, log_file.stem)
        fs1 == IF InInputDir(log_file)
               THEN move(fs, log_file, PathOf(session_dir, log_file.stem, log_file.suffix))
               ELSE fs
        fs2 == IF InInputDir(data_file)
               THEN move(fs1, data_file, PathOf(session_dir, data_file.stem, data_file.suffix))
               ELSE fs1
    IN  IF outcome_ = "log_fails" /\ InInputDir(log_file) THEN fs
        ELSE IF outcome_ = "data_fails" /\ InInputDir(data_file) THEN fs1
        ELSE fs2

\* the names of the files process_log_pair writes into the session directory
OutputFiles ==
    {"summary", "aircraft", "messages", "timeline", "by_aircraft", "by_message_type"}

\* what one of the json files holds.  summary.json carries the parser
\* version read at the start of the call; the other files are computed from
\* the catalog and the messages, which parse_data computes from the data
\* file and the catalog: a file is kept as what it was computed from
OutputContent(file, parser_version, aircraft_list, data_bytes) ==
    IF file = "summary"
    THEN Json([parser_version |-> parser_version])
    ELSE [aircraft |-> aircraft_list.aircraft,
          data |-> IF file = "aircraft" THEN <<>> ELSE data_bytes]

\* the six open(session_dir / "<file>.json", "w") blocks
WriteOutput(fs, session_dir, parser_version, aircraft_list, data_bytes) ==
    [p \in DOMAIN fs \cup {PathOf(session_dir, f, ".json") : f \in OutputFiles} |->
        IF p.parent = session_dir /\ p.suffix = ".json" /\ p.stem \in OutputFiles
        THEN OutputContent(p.stem, parser_version, aircraft_list, data_bytes)
        ELSE fs[p]]

\* a variant that archives the originals before it parses them
process_log_pair_CopyFirst(fs, classes, current_hash, log_file, data_file, copied, moved) ==
    LET r == parse_log(classes, fs[log_file])
        archived == CopyToProcessedLogs(fs, log_file, data_file, copied)
    IN  IF r.raised
        THEN [disk |-> archived, message_classes |-> r.message_classes,
              failed |-> TRUE, raised |-> FALSE]
        ELSE [disk |-> MoveToSessionDir(
                           WriteOutput(archived, Append(output_dir, log_file.stem),
                                       VersionInfo(current_hash), r.config, fs[data_file]),
                           log_file, data_file, moved),
              message_classes |-> r.message_classes,
              failed |-> FALSE, raised |-> FALSE]

\* process_log_pair(log_file, data_file) on the handler whose LogParser has
\* collected classes: the disk and the LogParser afterwards, whether
\* parse_log raised, and whether the call raised to its caller (the except
\* clause at the end catches every Exception)
process_log_pair(fs, classes, current_hash, log_file, data_file, copied, moved) ==
    LET r == parse_log(classes, fs[log_file])
    IN  IF r.raised
        THEN [disk |-> fs, message_classes |-> r.message_classes,
              failed |-> TRUE, raised |-> FALSE]
        ELSE [disk |-> MoveToSessionDir(
                           WriteOutput(CopyToProcessedLogs(fs, log_file, data_file, copied),
                                       Append(output_dir, log_file.stem),
                                       VersionInfo(current_hash), r.config, fs[data_file]),
                           log_file, data_file, moved),
              message_classes |-> r.message_classes,
              failed |-> FALSE, raised |-> FALSE]

\* the log files and the data file that are dropped into the input directory
PairLogs == {Schema(<<A3>>, Tel1), <<OpenTag("configuration", <<>>), A3>>}
PairData == {TextBytes(<<GoodLine>>, <<10>>)}

\* the sessions whose pairs arrive
PairSessions == {"s1"}

\* the record kept of a call
CallOf(log_file, data_file, before, r) ==
    [log_file |-> log_file, data_file |-> data_file, before |-> before,
     failed |-> r.failed, raised |-> r.raised]

\* the watcher starts on empty directories with a fresh LogParser
InitPair ==
    /\ disk = <<>>
    /\ last_pair = None
    /\ message_classes = <<>>
    /\ log_history = <<>>
    /\ outcome = None
    /\ parser_hash = 1
    /\ version_file = None
    /\ sessions = <<>>
    /\ reprocess = None
    /\ DecodersIdle /\ CallsIdle /\ ConvertIdle /\ HashIdle /\ WatchIdle

\* a log/data pair is put into the input directory
PairPut ==
    /\ \E s \in PairSessions, log \in PairLogs, data \in PairData :
          disk' = WriteFile(WriteFile(disk, LogPath(input_dir, s), log),
                            DataPath(input_dir, s), data)
    /\ last_pair' = None
    /\ UNCHANGED <<message_classes, log_history, outcome, guardVars>>
    /\ UNCHANGED <<decoderVars, callVars, convertVars, hashVars, watchVars>>

\* process_file or _process_existing_files finds both files of a pair in the
\* input directory and calls process_log_pair
ProcessInputPair ==
    /\ \E s \in PairSessions, copied \in Outcomes, moved \in Outcomes :
          /\ LogPath(input_dir, s) \in DOMAIN disk
          /\ DataPath(input_dir, s) \in DOMAIN disk
          /\ \E r \in {process_log_pair(disk, message_classes, parser_hash,
                                        LogPath(input_dir, s), DataPath(input_dir, s),
                                        copied, moved)} :
                /\ disk' = r.disk
                /\ message_classes' = r.message_classes
                /\ last_pair' = CallOf(LogPath(input_dir, s), DataPath(input_dir, s), disk, r)
    /\ UNCHANGED <<log_history, outcome, guardVars>>
    /\ UNCHANGED <<decoderVars, callVars, convertVars, hashVars, watchVars>>

\* the loop of check_and_reprocess_if_needed finds a log file and a data
\* file under processed_logs/<session> and calls process_log_pair on them
ReprocessArchivedPair ==
    /\ \E s \in PairSessions, copied \in Outcomes, moved \in Outcomes :
          \E session_processed_dir \in {Append(processed_logs_dir, s)} :
              /\ LogPath(session_processed_dir, s) \in DOMAIN disk
              /\ DataPath(session_processed_dir, s) \in DOMAIN disk
              /\ \E r \in {process_log_pair(disk, message_classes, parser_hash,
                                            LogPath(session_processed_dir, s),
                                            DataPath(session_processed_dir, s),
                                            copied, moved)} :
                    /\ disk' = r.disk
                    /\ message_classes' = r.message_classes
                    /\ last_pair' = CallOf(LogPath(session_processed_dir, s),
                                           DataPath(session_processed_dir, s), disk, r)
    /\ UNCHANGED <<log_history, outcome, guardVars>>
    /\ UNCHANGED <<decoderVars, callVars, convertVars, hashVars, watchVars>>

NextPair == PairPut \/ ProcessInputPair \/ ReprocessArchivedPair \/ ParserSourceChanges

SpecPair == InitPair /\ [][NextPair]_vars

\* the archived files of a session on a disk
Archived(fs, s) == {p \in DOMAIN fs : p.parent = Append(processed_logs_dir, s)}
\* the session is reprocessable: check_and_reprocess_if_needed finds its log
\* file and its data file under processed_logs
Reprocessable(fs, s) ==
    /\ \E p \in Archived(fs, s) : p.suffix = ".log"
    /\ \E p \in Archived(fs, s) : p.suffix = ".data"

\* C29: after process_log_pair has run on a pair that lies under
\* processed_logs/<session>, every file that was archived before the call
\* is archived with the same content, no file has been added to the archive,
\* and the session is reprocessable as it was before
C29_ReprocessingLeavesArchive ==
    (last_pair # None /\ last_pair.log_file.parent # input_dir)
        => /\ \A s \in SessionNames :
                 /\ Archived(disk, s) = Archived(last_pair.before, s)
                 /\ \A p \in Archived(disk, s) : disk[p] = last_pair.before[p]
           /\ Reprocessable(last_pair.before, last_pair.log_file.stem)
           /\ Reprocessable(disk, last_pair.log_file.stem)

\* an archived pair has been reprocessed to the end under a newer parser
C29_Witness ==
    /\ last_pair # None
    /\ last_pair.log_file.parent = Append(processed_logs_dir, "s1")
    /\ ~last_pair.failed
    /\ disk # last_pair.before
    /\ disk[PathOf(Append(output_dir, "s1"), "summary", ".json")]
           = Json([parser_version |-> VersionInfo(2)])

\* C30: when parse_log has raised for the log file of the pair, the call has
\* not raised to its caller and the disk is as it was before the call: no
\* file of the session's output is written or rewritten, nothing is copied
\* to processed_logs, and the log and data files are where they were
C30_NothingChangedOnSchemaFailure ==
    (last_pair # None /\ last_pair.failed)
        => /\ ~last_pair.raised
           /\ disk = last_pair.before
           /\ last_pair.log_file \in DOMAIN disk
           /\ last_pair.data_file \in DOMAIN disk

\* a pair whose log file cannot be parsed has arrived for a session that was
\* written under an older parser: the summary still carries the old version
C30_Witness ==
    /\ last_pair # None
    /\ last_pair.failed
    /\ last_pair.log_file = LogPath(input_dir, "s1")
    /\ parser_hash = 2
    /\ PathOf(Append(output_dir, "s1"), "summary", ".json") \in DOMAIN disk
    /\ disk[PathOf(Append(output_dir, "s1"), "summary", ".json")]
           = Json([parser_version |-> VersionInfo(1)])
    /\ Archived(disk, "s1") = {}

=============================================================================
